---- MODULE Spec2Model ----
(***************************************************************************)
(* Resource lifecycle client of the terraform module                       *)
(* (plugins/tf/terraform_resource_client.py) driving a provider over its   *)
(* RPCs, with the resource state kept by a state object                    *)
(* (plugins/tf/terraform_resource_state.py and                             *)
(* plugins/states/terraform_resource_state_inmanta.py) in a parameter of   *)
(* the orchestrator and in a private file.                                 *)
(*                                                                         *)
(* The provider is an external process: every RPC response is a            *)
(* nondeterministic choice.  Each client method is one action; the         *)
(* responses it consumes are chosen one by one, as the method asks for     *)
(* them.                                                                   *)
(***************************************************************************)
EXTENDS Integers, Sequences, FiniteSets, TLC

VARIABLES
    backend,          \* which state class the client was given
    resource_config,  \* the handler's resource.resource_config (desired configuration)
    config_hash,      \* TerraformResourceStateInmanta.config_hash
    _state,           \* TerraformResourceState._state (cached state)
    _private,         \* TerraformResourceState._private (cached private)
    _state_fact,      \* TerraformResourceStateInmanta._state_fact (cached envelope)
    param,            \* the orchestrator parameter holding the persisted state
    private_file,     \* the content of the private file
    last,             \* history: the last call, its outcome and its trace
    producer,         \* history: the configuration whose Create/Update produced the stored state
    repeated,         \* history: the last call repeated the call before it, which had returned
    _proc,            \* TerraformProvider._proc (handle of the subprocess)
    _stub,            \* TerraformProvider._stub
    _configured,      \* TerraformProvider._configured
    _stdout_thread,   \* TerraformProvider._stdout_thread
    _stderr_thread,   \* TerraformProvider._stderr_thread
    _schema,          \* TerraformProvider._schema
    procs,            \* the subprocesses spawned so far, each running or killed
    client,           \* whether a TerraformResourceClient has been built on the provider
    close_pc,         \* where a running TerraformProvider.close() is
    io_pc,            \* where each _io_logger thread is
    pipe,             \* the lines written to each stream of the subprocess and not read yet
    logged,           \* the lines of each stream given to the logger
    config_param,     \* the orchestrator parameter holding the last configuration
    resource_states,  \* plugins: the state parameter cached for this compile
    resource_configs, \* plugins: the config parameter cached for this compile
    schema_block,     \* the schema block given to fill_partial_state and parse_resource_state
    state_tree,       \* the value tree given to fill_partial_state
    filled,           \* what fill_partial_state returned or raised
    parsed            \* what parse_resource_state returned or raised

resource_vars == <<backend, resource_config, config_hash, _state, _private,
                   _state_fact, param, private_file, producer, repeated>>

io_vars == <<close_pc, io_pc, pipe, logged>>

provider_vars == <<_proc, _stub, _configured, _stdout_thread, _stderr_thread,
                   _schema, procs, client, io_vars>>

compile_vars == <<config_param, resource_states, resource_configs>>

tree_vars == <<schema_block, state_tree, filled, parsed>>

vars == <<resource_vars, provider_vars, compile_vars, tree_vars, last>>

-----------------------------------------------------------------------------
(* Bounds of the model *)

MaxImports == 2
MaxFields == 5
MaxSpawns == 2
MaxItems == 2
MaxLines == 2

-----------------------------------------------------------------------------
(* Values *)

\* Python's None, and a present value
None == <<>>
Some(v) == <<v>>
Val(o) == o[1]

\* the ids a remote object may have: the client only compares them for equality
Ids == {"id_a", "id_b"}
\* a state dict: the provider's view of the remote object, with its "id" key
States == [id : Ids]
\* an Optional[dict]: None, or a state dict
OptStates == {None} \cup {Some(s) : s \in States}
\* a private blob: the empty bytes value b"" and another one; the client never
\* looks into it
EMPTY_BYTES == "b''"
Privates == {EMPTY_BYTES, "b'p'"}
\* the desired-configuration dictionaries of the resource
Configs == {"cfgA", "cfgB"}
\* the resource types a provider may return on import
OWN_TYPE == "own_type"
OTHER_TYPE == "other_type"
Backends == {"base", "inmanta"}

dict_hash(input) == IF input = "cfgA" THEN "md5_cfgA" ELSE "md5_cfgB"

\* msgpack: a value has several encodings, packb produces the standard one
Wire == [val : OptStates, enc : {"std", "alt"}]
packb(v) == [val |-> v, enc |-> "std"]
unpackb(w) == w.val
parse_response(input) == IF input = None THEN None ELSE input

\* base64 of the private file, json of the parameter
b64encode(p) == [b64 |-> p]
b64decode(f) == f.b64
json_dumps(v) == [json |-> v]
json_loads(s) == s.json

-----------------------------------------------------------------------------
(* Generational state facts *)

STATE_DICT_GENERATION_MARKER == "__state_dict_generation"

LegacyStateFact(state) == [cls |-> "LegacyStateFact", state |-> state]

AlbatrossGenerationStateFact(state, hash) ==
    [cls |-> "AlbatrossGenerationStateFact", state |-> state, config_hash |-> hash]

\* json() of a fact whose _iter yields the fields only, without the marker
fact_json_no_marker(fact) ==
    [k \in {"state", "config_hash"} |->
        IF k = "state" THEN fact.state ELSE fact.config_hash]

\* GenerationalStateFact._iter + pydantic json(): the fields and the marker
fact_json(fact) ==
    [k \in {"state", "config_hash", STATE_DICT_GENERATION_MARKER} |->
        IF k = "state" THEN fact.state
        ELSE IF k = "config_hash" THEN fact.config_hash
        ELSE "Albatross"]

\* build_state_fact that takes a record of an unregistered generation for a
\* legacy one
build_state_fact_downgrades(raw_state) ==
    LET generation == IF STATE_DICT_GENERATION_MARKER \in DOMAIN raw_state
                      THEN Some(raw_state[STATE_DICT_GENERATION_MARKER])
                      ELSE None
    IN  IF generation = Some("Albatross")
        THEN AlbatrossGenerationStateFact(raw_state["state"], raw_state["config_hash"])
        ELSE LegacyStateFact(Some(raw_state))

\* build_state_fact that takes the state of a legacy record from its "state"
\* key
build_state_fact_reads_state_key(raw_state) ==
    LET generation == IF STATE_DICT_GENERATION_MARKER \in DOMAIN raw_state
                      THEN Some(raw_state[STATE_DICT_GENERATION_MARKER])
                      ELSE None
    IN  IF generation = None
        THEN LegacyStateFact(IF "state" \in DOMAIN raw_state
                             THEN raw_state["state"]
                             ELSE None)
        ELSE IF generation = Some("Albatross")
        THEN AlbatrossGenerationStateFact(raw_state["state"], raw_state["config_hash"])
        ELSE [cls |-> "KeyError"]

\* a raw state without the marker is a legacy one: the state dict itself; a
\* marker that is not a key of state_fact_generations raises KeyError
build_state_fact(raw_state) ==
    LET generation == IF STATE_DICT_GENERATION_MARKER \in DOMAIN raw_state
                      THEN Some(raw_state[STATE_DICT_GENERATION_MARKER])
                      ELSE None
    IN  IF generation = None
        THEN LegacyStateFact(Some(raw_state))
        ELSE IF generation = Some("Albatross")
        THEN AlbatrossGenerationStateFact(raw_state["state"], raw_state["config_hash"])
        ELSE [cls |-> "KeyError"]

\* LegacyStateFact.convert that builds a legacy fact from any other one
legacy_convert_downgrades(state) ==
    IF state.cls = "LegacyStateFact"
    THEN state
    ELSE LegacyStateFact(state.state)

\* LegacyStateFact.convert: identity on a legacy fact; _convert returns None
\* for any other one and convert raises ValueError
legacy_convert(state) ==
    IF state.cls = "LegacyStateFact"
    THEN state
    ELSE [cls |-> "ValueError"]

\* convert() that stamps an upgraded legacy fact with the hash of the store
convert_stamps_store_hash(state) ==
    IF state.cls = "AlbatrossGenerationStateFact"
    THEN state
    ELSE AlbatrossGenerationStateFact(state.state, config_hash)

\* AlbatrossGenerationStateFact.convert: identity on the current generation;
\* any other fact is first converted to a legacy one, which is upgraded with
\* the empty config hash
convert(state) ==
    IF state.cls = "AlbatrossGenerationStateFact"
    THEN state
    ELSE LET legacy_state_fact == legacy_convert(state)
         IN  IF legacy_state_fact.cls = "ValueError"
             THEN legacy_state_fact
             ELSE AlbatrossGenerationStateFact(legacy_state_fact.state, "")

\* cls.convert(state) for the class named target
convert_to(target, state) ==
    IF target = "LegacyStateFact" THEN legacy_convert(state) ELSE convert(state)

-----------------------------------------------------------------------------
(* The state object, as a record o:                                        *)
(*   _state, _private, _state_fact : the cached fields                     *)
(*   param, file                   : the parameter and the private file    *)
(*   trace                         : what the current call did so far      *)

\* a trace entry: an RPC sent to the provider (with its response, and its request
\* where the request is made of earlier responses), or a write of the state
\* object, with the method that made it; a state write of the
\* orchestrator-backed store records the state fact it found
Event(ev, op, req, resp) == [ev |-> ev, op |-> op, req |-> req, resp |-> resp]

Log(o, e) == [o EXCEPT !.trace = Append(@, e)]

private_get(o) ==
    IF o._private = None /\ o.file # None
    THEN [o EXCEPT !._private = Some(b64decode(Val(o.file)))]
    ELSE o

\* the state_fact property raises: there is no cached fact and
\* build_state_fact raises on the stored record
state_fact_raises(o) ==
    /\ o._state_fact = None
    /\ o.param # None
    /\ build_state_fact(json_loads(Val(o.param))).cls = "KeyError"

state_fact_get(o) ==
    IF o._state_fact = None /\ o.param # None /\ ~state_fact_raises(o)
    THEN [o EXCEPT !._state_fact = Some(build_state_fact(json_loads(Val(o.param))))]
    ELSE o

state_get(o) ==
    IF o._state # None
    THEN o
    ELSE IF backend = "base"
    THEN IF o.param # None
         THEN [o EXCEPT !._state = json_loads(Val(o.param))]
         ELSE o
    ELSE LET o1 == state_fact_get(o)
         IN  IF o1._state_fact # None
             THEN [o1 EXCEPT !._state = Val(o1._state_fact).state]
             ELSE o1

private_set(o, value) ==
    Log([o EXCEPT !.file = Some(b64encode(value)), !._private = Some(value)],
        Event("private.setter", "store", None, None))

\* the setter without the assignment of config_hash on an existing fact
state_set_keeps_fact_hash(o, value) ==
    IF backend = "base"
    THEN Log([o EXCEPT !.param = Some(json_dumps(value)), !._state = value],
             Event("state.setter", "store", None, None))
    ELSE LET o1 == state_fact_get(o)
             fact == IF o1._state_fact = None
                     THEN AlbatrossGenerationStateFact(value, config_hash)
                     ELSE [convert(Val(o1._state_fact)) EXCEPT !.state = value]
         IN  Log([o1 EXCEPT !._state_fact = Some(fact),
                            !.param = Some(json_dumps(fact_json(fact))),
                            !._state = value],
                 Event("state.setter", "store", o1._state_fact, None))

state_set(o, value) ==
    IF backend = "base"
    THEN Log([o EXCEPT !.param = Some(json_dumps(value)), !._state = value],
             Event("state.setter", "store", None, None))
    ELSE LET o1 == state_fact_get(o)
             fact == IF o1._state_fact = None
                     THEN AlbatrossGenerationStateFact(value, config_hash)
                     ELSE [convert(Val(o1._state_fact)) EXCEPT
                               !.state = value, !.config_hash = config_hash]
         IN  Log([o1 EXCEPT !._state_fact = Some(fact),
                            !.param = Some(json_dumps(fact_json(fact))),
                            !._state = value],
                 Event("state.setter", "store", o1._state_fact, None))

base_purge(o) ==
    [o EXCEPT !._private = None, !._state = None, !.param = None, !.file = None]

\* purge() that clears the cached fields only and deletes nothing from the stores
purge_cache_only(o) ==
    Log([o EXCEPT !._private = None, !._state = None],
        Event("purge", "store", None, None))

purge(o) ==
    Log(IF backend = "base"
        THEN base_purge(o)
        ELSE [base_purge(o) EXCEPT !.param = None, !.file = None],
        Event("purge", "store", None, None))

\* [o, error]: the object after the two reads, and whether the check raised
\* raise_if_not_complete() that looks at the private only
raise_if_not_complete_private_only(o) ==
    LET o1 == private_get(o)
    IN  IF o1._private = None
        THEN [o |-> o1, error |-> "Exception"]
        ELSE [o |-> o1, error |-> "none"]

raise_if_not_complete(o) ==
    LET o1 == private_get(o)
        o2 == state_get(o1)
    IN  IF o1._private = None
        THEN [o |-> o1, error |-> "Exception"]
        ELSE IF o2._state = None
        THEN [o |-> o2, error |-> "Exception"]
        ELSE [o |-> o2, error |-> "none"]

-----------------------------------------------------------------------------
(* Provider responses *)

\* the candidates of an import: of the client's type, or of another type (those
\* the client drops)
ImportedResource ==
    {[type_name |-> OWN_TYPE, state |-> packb(Some([id |-> "id_a"])), private |-> "b'p'"],
     [type_name |-> OTHER_TYPE, state |-> packb(None), private |-> EMPTY_BYTES]}

\* a candidate of the client's type with a null state (against the protocol)
NullImportedResource == [type_name |-> OWN_TYPE, state |-> packb(None), private |-> EMPTY_BYTES]

ImportedLists ==
    UNION {[1..n -> ImportedResource] : n \in 0..MaxImports} \cup {<<NullImportedResource>>}

ImportFailed == [imported_resources |-> <<>>, diagnostics |-> TRUE]
ImportResponses ==
    {ImportFailed} \cup [imported_resources : ImportedLists, diagnostics : {FALSE}]

ReadFailed == [new_state |-> packb(None), private |-> EMPTY_BYTES, diagnostics |-> TRUE]
ReadResponses ==
    {ReadFailed} \cup [new_state : {packb(v) : v \in OptStates}, private : Privates,
                       diagnostics : {FALSE}]

PlanFailed == [planned_state |-> packb(None), planned_private |-> EMPTY_BYTES,
               requires_replace |-> FALSE, diagnostics |-> TRUE]
\* the plans of an update on the state `cur`: the planned state is the prior
\* state byte for byte, the same value in another encoding, or another value
PlanResponses(cur) ==
    {PlanFailed} \cup
    [planned_state : {packb(cur), [val |-> cur, enc |-> "alt"]}
                     \cup {packb(Some(s)) : s \in States},
     planned_private : {"b'p'"}, requires_replace : BOOLEAN, diagnostics : {FALSE}]
\* the plans of a create or a delete: the client only hands them on to Apply
OpaquePlanResponses ==
    {PlanFailed} \cup [planned_state : {packb(None)}, planned_private : {"b'p'"},
                       requires_replace : {FALSE}, diagnostics : {FALSE}]

ApplyResponses ==
    [new_state : {packb(v) : v \in OptStates}, private : Privates, diagnostics : BOOLEAN]
\* the answers to the Apply of a delete: the client reads their diagnostics only
DeleteApplyResponses ==
    {x \in ApplyResponses :
        /\ x.private = "b'p'"
        /\ x.new_state.val \in {None, Some([id |-> "id_a"])}
        /\ x.diagnostics => x.new_state.val # None}

\* the responses to the RPC a method is blocked in (r is its Need outcome)
Responses(r) ==
    CASE r.need = "import" -> ImportResponses
      [] r.need = "read" -> ReadResponses
      [] r.need = "plan" -> PlanResponses(r.o._state)
      [] r.need = "opaque_plan" -> OpaquePlanResponses
      [] r.need = "apply" -> ApplyResponses
      [] r.need = "delete_apply" -> DeleteApplyResponses
      [] OTHER -> {}

-----------------------------------------------------------------------------
(* Outcomes of a client method run on the responses received so far *)

Return(o, value) == [o |-> o, ret |-> value, error |-> "none", diag |-> FALSE, need |-> "none"]
Raise(o, error, diag) == [o |-> o, ret |-> None, error |-> error, diag |-> diag, need |-> "none"]
\* the method is blocked in an RPC of this kind, waiting for its response
Need(o, kind) == [o |-> o, ret |-> None, error |-> "none", diag |-> FALSE, need |-> kind]

\* the responses that can come next: none when the method has finished
NextResponses(r) ==
    IF r.need = "none" THEN {<<>>} ELSE {<<x>> : x \in Responses(r)}

-----------------------------------------------------------------------------
(* TerraformResourceClient: each method run on the sequence of responses   *)
(* the provider gave to its RPCs, in the order the method issued them      *)

\* the requests of the RPCs, as far as the properties read them
\* ReadResource is sent with the state and the private data of the state object
SendRead(o, result) ==
    Log(o, Event("ReadResource", "read",
                 Some([current_state |-> packb(o._state), private |-> o._private]),
                 Some(result)))
\* PlanResourceChange is sent with the state and the private data of the state
\* object as prior state, and with no prior state by a create
SendPlan(o, op, plan) ==
    Log(o, Event("PlanResourceChange", op,
                 Some([prior_state |-> packb(IF op = "create" THEN None ELSE o._state),
                       prior_private |-> IF op = "create" THEN None ELSE o._private]),
                 Some(plan)))
ApplyRequest(plan) ==
    Some([planned_state |-> plan.planned_state, planned_private |-> plan.planned_private])

\* read_resource() that stores the private of the response before it raises for
\* the diagnostics
read_resource_stores_first(o, resps) ==
    LET o1 == state_get(o)
        c == raise_if_not_complete(o1)
        result == resps[1]
        o2 == SendRead(c.o, result)
        o3 == private_set(o2, result.private)
        new_state == parse_response(unpackb(result.new_state))
        o4 == state_set(o3, new_state)
    IN  IF o1._state = None THEN Return(o1, None)
        ELSE IF c.error # "none" THEN Raise(c.o, c.error, FALSE)
        ELSE IF Len(resps) < 1 THEN Need(c.o, "read")
        ELSE IF result.diagnostics THEN Raise(o3, "PluginResponseException", TRUE)
        ELSE IF new_state # None THEN Return(state_get(o4), state_get(o4)._state)
        ELSE Return(purge(o3), None)

read_resource(o, resps) ==
    LET o1 == state_get(o)
        c == raise_if_not_complete(o1)
        result == resps[1]
        o2 == SendRead(c.o, result)
        o3 == private_set(o2, result.private)
        new_state == parse_response(unpackb(result.new_state))
        o4 == state_set(o3, new_state)
    IN  IF o1._state = None THEN Return(o1, None)
        ELSE IF c.error # "none" THEN Raise(c.o, c.error, FALSE)
        ELSE IF Len(resps) < 1 THEN Need(c.o, "read")
        ELSE IF result.diagnostics THEN Raise(o2, "PluginResponseException", TRUE)
        ELSE IF new_state # None THEN Return(state_get(o4), state_get(o4)._state)
        ELSE Return(purge(o3), None)

\* create_resource() that raises for the diagnostics of Apply before it stores
\* what Apply returned
create_resource_raises_first(o, desired, resps) ==
    LET plan == resps[1]
        o1 == SendPlan(o, "create", plan)
        result == resps[2]
        o2 == Log(o1, Event("ApplyResourceChange", "create", ApplyRequest(plan),
                         Some(result)))
        o3 == private_set(o2, result.private)
        new_state == parse_response(unpackb(result.new_state))
        o4 == IF new_state # None THEN state_set(o3, new_state) ELSE o3
    IN  IF Len(resps) < 1 THEN Need(o, "opaque_plan")
        ELSE IF plan.diagnostics THEN Raise(o1, "PluginResponseException", TRUE)
        ELSE IF Len(resps) < 2 THEN Need(o1, "apply")
        ELSE IF result.diagnostics THEN Raise(o2, "PluginResponseException", TRUE)
        ELSE Return(state_get(o4), state_get(o4)._state)

\* create_resource() that stores the new state without looking whether it is null
create_resource_stores_null(o, desired, resps) ==
    LET plan == resps[1]
        o1 == SendPlan(o, "create", plan)
        result == resps[2]
        o2 == Log(o1, Event("ApplyResourceChange", "create", ApplyRequest(plan),
                         Some(result)))
        o3 == private_set(o2, result.private)
        new_state == parse_response(unpackb(result.new_state))
        o4 == state_set(o3, new_state)
    IN  IF Len(resps) < 1 THEN Need(o, "opaque_plan")
        ELSE IF plan.diagnostics THEN Raise(o1, "PluginResponseException", TRUE)
        ELSE IF Len(resps) < 2 THEN Need(o1, "apply")
        ELSE IF result.diagnostics THEN Raise(o4, "PluginResponseException", TRUE)
        ELSE Return(state_get(o4), state_get(o4)._state)

\* create_resource() that does not raise for the diagnostics of the plan
create_resource_applies_any_plan(o, desired, resps) ==
    LET plan == resps[1]
        o1 == SendPlan(o, "create", plan)
        result == resps[2]
        o2 == Log(o1, Event("ApplyResourceChange", "create", ApplyRequest(plan),
                         Some(result)))
        o3 == private_set(o2, result.private)
        new_state == parse_response(unpackb(result.new_state))
        o4 == IF new_state # None THEN state_set(o3, new_state) ELSE o3
    IN  IF Len(resps) < 1 THEN Need(o, "opaque_plan")
        ELSE IF Len(resps) < 2 THEN Need(o1, "apply")
        ELSE IF result.diagnostics THEN Raise(o4, "PluginResponseException", TRUE)
        ELSE Return(state_get(o4), state_get(o4)._state)

\* create_resource() that sends the stored private as the prior private of its plan
create_resource_sends_private(o, desired, resps) ==
    LET plan == resps[1]
        o1 == Log(o, Event("PlanResourceChange", "create",
                           Some([prior_state |-> packb(None),
                                 prior_private |-> private_get(o)._private]),
                           Some(plan)))
        result == resps[2]
        o2 == Log(o1, Event("ApplyResourceChange", "create", ApplyRequest(plan),
                         Some(result)))
        o3 == private_set(o2, result.private)
        new_state == parse_response(unpackb(result.new_state))
        o4 == IF new_state # None THEN state_set(o3, new_state) ELSE o3
    IN  IF Len(resps) < 1 THEN Need(o, "opaque_plan")
        ELSE IF plan.diagnostics THEN Raise(o1, "PluginResponseException", TRUE)
        ELSE IF Len(resps) < 2 THEN Need(o1, "apply")
        ELSE IF result.diagnostics THEN Raise(o4, "PluginResponseException", TRUE)
        ELSE Return(state_get(o4), state_get(o4)._state)

create_resource(o, desired, resps) ==
    LET plan == resps[1]
        o1 == SendPlan(o, "create", plan)
        result == resps[2]
        o2 == Log(o1, Event("ApplyResourceChange", "create", ApplyRequest(plan),
                         Some(result)))
        o3 == private_set(o2, result.private)
        new_state == parse_response(unpackb(result.new_state))
        o4 == IF new_state # None THEN state_set(o3, new_state) ELSE o3
    IN  IF Len(resps) < 1 THEN Need(o, "opaque_plan")
        ELSE IF plan.diagnostics THEN Raise(o1, "PluginResponseException", TRUE)
        ELSE IF Len(resps) < 2 THEN Need(o1, "apply")
        ELSE IF result.diagnostics THEN Raise(o4, "PluginResponseException", TRUE)
        ELSE Return(state_get(o4), state_get(o4)._state)

\* delete_resource() without raise_if_not_complete()
delete_resource_unchecked(o, resps) ==
    LET plan == resps[1]
        o1 == SendPlan(private_get(state_get(o)), "delete", plan)
        result == resps[2]
        o2 == Log(o1, Event("ApplyResourceChange", "delete", ApplyRequest(plan),
                         Some(result)))
    IN  IF Len(resps) < 1 THEN Need(o, "opaque_plan")
        ELSE IF plan.diagnostics THEN Raise(o1, "PluginResponseException", TRUE)
        ELSE IF Len(resps) < 2 THEN Need(o1, "delete_apply")
        ELSE IF result.diagnostics THEN Raise(o2, "PluginResponseException", TRUE)
        ELSE Return(purge(o2), None)

delete_resource(o, resps) ==
    LET c == raise_if_not_complete(o)
        plan == resps[1]
        o1 == SendPlan(c.o, "delete", plan)
        result == resps[2]
        o2 == Log(o1, Event("ApplyResourceChange", "delete", ApplyRequest(plan),
                         Some(result)))
    IN  IF c.error # "none" THEN Raise(c.o, c.error, FALSE)
        ELSE IF Len(resps) < 1 THEN Need(c.o, "opaque_plan")
        ELSE IF plan.diagnostics THEN Raise(o1, "PluginResponseException", TRUE)
        ELSE IF Len(resps) < 2 THEN Need(o1, "delete_apply")
        ELSE IF result.diagnostics THEN Raise(o2, "PluginResponseException", TRUE)
        ELSE Return(purge(o2), None)

\* update_resource() without the comparison of the planned state with the prior
\* state: it applies every plan
update_resource_no_shortcut(o, desired, resps) ==
    LET c == raise_if_not_complete(o)
        plan == resps[1]
        o1 == SendPlan(c.o, "update", plan)
        deleted == delete_resource(o1, Tail(resps))
        result == resps[2]
        o2 == Log(o1, Event("ApplyResourceChange", "update", ApplyRequest(plan),
                         Some(result)))
        o3 == private_set(o2, result.private)
        new_state == parse_response(unpackb(result.new_state))
        o4 == IF new_state # None THEN state_set(o3, new_state) ELSE o3
    IN  IF c.error # "none" THEN Raise(c.o, c.error, FALSE)
        ELSE IF Len(resps) < 1 THEN Need(c.o, "plan")
        ELSE IF plan.diagnostics THEN Raise(o1, "PluginResponseException", TRUE)
        ELSE IF plan.requires_replace
        THEN IF deleted.need # "none" \/ deleted.error # "none"
             THEN deleted
             ELSE create_resource(deleted.o, desired, SubSeq(resps, 4, Len(resps)))
        ELSE IF Len(resps) < 2 THEN Need(o1, "apply")
        ELSE IF result.diagnostics THEN Raise(o4, "PluginResponseException", TRUE)
        ELSE IF new_state = None THEN Raise(o4, "PluginResponseException", FALSE)
        ELSE Return(state_get(o4), state_get(o4)._state)

\* update_resource() that ignores requires_replace and applies the plan in place
update_resource_replace_in_place(o, desired, resps) ==
    LET c == raise_if_not_complete(o)
        prior_state == packb(state_get(c.o)._state)
        plan == resps[1]
        o1 == SendPlan(c.o, "update", plan)
        result == resps[2]
        o2 == Log(o1, Event("ApplyResourceChange", "update", ApplyRequest(plan),
                         Some(result)))
        o3 == private_set(o2, result.private)
        new_state == parse_response(unpackb(result.new_state))
        o4 == IF new_state # None THEN state_set(o3, new_state) ELSE o3
    IN  IF c.error # "none" THEN Raise(c.o, c.error, FALSE)
        ELSE IF Len(resps) < 1 THEN Need(c.o, "plan")
        ELSE IF plan.diagnostics THEN Raise(o1, "PluginResponseException", TRUE)
        ELSE IF plan.planned_state = prior_state THEN Return(state_get(o1), state_get(o1)._state)
        ELSE IF Len(resps) < 2 THEN Need(o1, "apply")
        ELSE IF result.diagnostics THEN Raise(o4, "PluginResponseException", TRUE)
        ELSE IF new_state = None THEN Raise(o4, "PluginResponseException", FALSE)
        ELSE Return(state_get(o4), state_get(o4)._state)

\* update_resource() without the check of a null new state after the apply
update_resource_accepts_null(o, desired, resps) ==
    LET c == raise_if_not_complete(o)
        prior_state == packb(state_get(c.o)._state)
        plan == resps[1]
        o1 == SendPlan(c.o, "update", plan)
        \* replace: delete_resource() then create_resource(desired)
        deleted == delete_resource(o1, Tail(resps))
        \* in-place apply
        result == resps[2]
        o2 == Log(o1, Event("ApplyResourceChange", "update", ApplyRequest(plan),
                         Some(result)))
        o3 == private_set(o2, result.private)
        new_state == parse_response(unpackb(result.new_state))
        o4 == IF new_state # None THEN state_set(o3, new_state) ELSE o3
    IN  IF c.error # "none" THEN Raise(c.o, c.error, FALSE)
        ELSE IF Len(resps) < 1 THEN Need(c.o, "plan")
        ELSE IF plan.diagnostics THEN Raise(o1, "PluginResponseException", TRUE)
        ELSE IF plan.planned_state = prior_state THEN Return(state_get(o1), state_get(o1)._state)
        ELSE IF plan.requires_replace
        THEN IF deleted.need # "none" \/ deleted.error # "none"
             THEN deleted
             ELSE create_resource(deleted.o, desired, SubSeq(resps, 4, Len(resps)))
        ELSE IF Len(resps) < 2 THEN Need(o1, "apply")
        ELSE IF result.diagnostics THEN Raise(o4, "PluginResponseException", TRUE)
        ELSE Return(state_get(o4), state_get(o4)._state)

update_resource(o, desired, resps) ==
    LET c == raise_if_not_complete(o)
        prior_state == packb(state_get(c.o)._state)
        plan == resps[1]
        o1 == SendPlan(c.o, "update", plan)
        \* replace: delete_resource() then create_resource(desired)
        deleted == delete_resource(o1, Tail(resps))
        \* in-place apply
        result == resps[2]
        o2 == Log(o1, Event("ApplyResourceChange", "update", ApplyRequest(plan),
                         Some(result)))
        o3 == private_set(o2, result.private)
        new_state == parse_response(unpackb(result.new_state))
        o4 == IF new_state # None THEN state_set(o3, new_state) ELSE o3
    IN  IF c.error # "none" THEN Raise(c.o, c.error, FALSE)
        ELSE IF Len(resps) < 1 THEN Need(c.o, "plan")
        ELSE IF plan.diagnostics THEN Raise(o1, "PluginResponseException", TRUE)
        ELSE IF plan.planned_state = prior_state THEN Return(state_get(o1), state_get(o1)._state)
        ELSE IF plan.requires_replace
        THEN IF deleted.need # "none" \/ deleted.error # "none"
             THEN deleted
             ELSE create_resource(deleted.o, desired, SubSeq(resps, 4, Len(resps)))
        ELSE IF Len(resps) < 2 THEN Need(o1, "apply")
        ELSE IF result.diagnostics THEN Raise(o4, "PluginResponseException", TRUE)
        ELSE IF new_state = None THEN Raise(o4, "PluginResponseException", FALSE)
        ELSE Return(state_get(o4), state_get(o4)._state)

\* import_resource() that takes the first candidate of its type when there are
\* several
import_resource_picks_first(o, id, resps) ==
    LET o1 == state_get(o)
        import_result == resps[1]
        o2 == Log(o1, Event("ImportResourceState", "import", None, Some(import_result)))
        filtered_imports == SelectSeq(import_result.imported_resources,
                                      LAMBDA r : r.type_name = OWN_TYPE)
        imported_state == parse_response(unpackb(filtered_imports[1].state))
        read_result == resps[2]
        o3 == Log(o2, Event("ReadResource", "import",
                            Some([current_state |-> filtered_imports[1].state,
                                  private |-> filtered_imports[1].private]),
                            Some(read_result)))
        new_state == parse_response(unpackb(read_result.new_state))
        o4 == private_set(state_set(o3, new_state), read_result.private)
    IN  IF o1._state # None /\ Val(o1._state).id # id
        THEN Raise(o1, "PluginException", FALSE)
        ELSE IF Len(resps) < 1 THEN Need(o1, "import")
        ELSE IF import_result.diagnostics THEN Raise(o2, "PluginResponseException", TRUE)
        ELSE IF filtered_imports = <<>> THEN Raise(o2, "ResourceLookupException", FALSE)
        ELSE IF imported_state = None THEN Raise(o2, "PluginResponseException", FALSE)
        ELSE IF Len(resps) < 2 THEN Need(o2, "read")
        ELSE IF read_result.diagnostics THEN Raise(o3, "PluginResponseException", TRUE)
        ELSE IF new_state = None THEN Raise(o3, "ResourceLookupException", FALSE)
        ELSE Return(o4, new_state)

\* import_resource() that stores the imported candidate before the follow-up read
import_resource_adopts_before_read(o, id, resps) ==
    LET o1 == state_get(o)
        import_result == resps[1]
        o2 == Log(o1, Event("ImportResourceState", "import", None, Some(import_result)))
        filtered_imports == SelectSeq(import_result.imported_resources,
                                      LAMBDA r : r.type_name = OWN_TYPE)
        imported_state == parse_response(unpackb(filtered_imports[1].state))
        adopted == private_set(state_set(o2, imported_state), filtered_imports[1].private)
        read_result == resps[2]
        o3 == Log(adopted, Event("ReadResource", "import",
                                 Some([current_state |-> filtered_imports[1].state,
                                       private |-> filtered_imports[1].private]),
                                 Some(read_result)))
        new_state == parse_response(unpackb(read_result.new_state))
        o4 == private_set(state_set(o3, new_state), read_result.private)
    IN  IF o1._state # None /\ Val(o1._state).id # id
        THEN Raise(o1, "PluginException", FALSE)
        ELSE IF Len(resps) < 1 THEN Need(o1, "import")
        ELSE IF import_result.diagnostics THEN Raise(o2, "PluginResponseException", TRUE)
        ELSE IF filtered_imports = <<>> THEN Raise(o2, "ResourceLookupException", FALSE)
        ELSE IF Len(filtered_imports) > 1 THEN Raise(o2, "PluginException", FALSE)
        ELSE IF imported_state = None THEN Raise(o2, "PluginResponseException", FALSE)
        ELSE IF Len(resps) < 2 THEN Need(adopted, "read")
        ELSE IF read_result.diagnostics THEN Raise(o3, "PluginResponseException", TRUE)
        ELSE IF new_state = None THEN Raise(o3, "ResourceLookupException", FALSE)
        ELSE Return(o4, new_state)

\* import_resource() without the comparison of the id with that of the state
import_resource_any_id(o, id, resps) ==
    LET o1 == state_get(o)
        import_result == resps[1]
        o2 == Log(o1, Event("ImportResourceState", "import", None, Some(import_result)))
        filtered_imports == SelectSeq(import_result.imported_resources,
                                      LAMBDA r : r.type_name = OWN_TYPE)
        imported_state == parse_response(unpackb(filtered_imports[1].state))
        read_result == resps[2]
        o3 == Log(o2, Event("ReadResource", "import",
                            Some([current_state |-> filtered_imports[1].state,
                                  private |-> filtered_imports[1].private]),
                            Some(read_result)))
        new_state == parse_response(unpackb(read_result.new_state))
        o4 == private_set(state_set(o3, new_state), read_result.private)
    IN  IF Len(resps) < 1 THEN Need(o1, "import")
        ELSE IF import_result.diagnostics THEN Raise(o2, "PluginResponseException", TRUE)
        ELSE IF filtered_imports = <<>> THEN Raise(o2, "ResourceLookupException", FALSE)
        ELSE IF Len(filtered_imports) > 1 THEN Raise(o2, "PluginException", FALSE)
        ELSE IF imported_state = None THEN Raise(o2, "PluginResponseException", FALSE)
        ELSE IF Len(resps) < 2 THEN Need(o2, "read")
        ELSE IF read_result.diagnostics THEN Raise(o3, "PluginResponseException", TRUE)
        ELSE IF new_state = None THEN Raise(o3, "ResourceLookupException", FALSE)
        ELSE Return(o4, new_state)

import_resource(o, id, resps) ==
    LET o1 == state_get(o)
        import_result == resps[1]
        o2 == Log(o1, Event("ImportResourceState", "import", None, Some(import_result)))
        filtered_imports == SelectSeq(import_result.imported_resources,
                                      LAMBDA r : r.type_name = OWN_TYPE)
        imported_state == parse_response(unpackb(filtered_imports[1].state))
        read_result == resps[2]
        o3 == Log(o2, Event("ReadResource", "import",
                            Some([current_state |-> filtered_imports[1].state,
                                  private |-> filtered_imports[1].private]),
                            Some(read_result)))
        new_state == parse_response(unpackb(read_result.new_state))
        o4 == private_set(state_set(o3, new_state), read_result.private)
    IN  IF o1._state # None /\ Val(o1._state).id # id
        THEN Raise(o1, "PluginException", FALSE)
        ELSE IF Len(resps) < 1 THEN Need(o1, "import")
        ELSE IF import_result.diagnostics THEN Raise(o2, "PluginResponseException", TRUE)
        ELSE IF filtered_imports = <<>> THEN Raise(o2, "ResourceLookupException", FALSE)
        ELSE IF Len(filtered_imports) > 1 THEN Raise(o2, "PluginException", FALSE)
        ELSE IF imported_state = None THEN Raise(o2, "PluginResponseException", FALSE)
        ELSE IF Len(resps) < 2 THEN Need(o2, "read")
        ELSE IF read_result.diagnostics THEN Raise(o3, "PluginResponseException", TRUE)
        ELSE IF new_state = None THEN Raise(o3, "ResourceLookupException", FALSE)
        ELSE Return(o4, new_state)

-----------------------------------------------------------------------------
(* fill_partial_state and parse_resource_state (helpers/utils.py)          *)
(* A value is a record tagged by its type t: null, a string s, a dict d (a *)
(* function from its keys) or a list l (a sequence).  A schema block has a *)
(* sequence of                                                             *)
(* attributes [name, computed] and a sequence of nested block types        *)
(* [type_name, nesting, block].                                            *)

Null == [t |-> "null"]
Str(x) == [t |-> "str", s |-> x]
Dict(f) == [t |-> "dict", d |-> f]
List(q) == [t |-> "list", l |-> q]
Raised(e) == [t |-> e]
NotRun == [t |-> "not run"]

isRaised(x) == x.t \in {"Exception", "AttributeError"}

\* dict.get(key)
get(d, key) == IF key \in DOMAIN d THEN d[key] ELSE Null

\* the nesting modes of tfplugin5 Schema.NestedBlock
SINGLE == 1
LIST == 2
SET == 3
MAP == 4
GROUP == 5

\* the last nested block type of the block with this type name
block_type(schema_block_, key) ==
    LET bts == schema_block_.block_types
        idx == {i \in 1..Len(bts) : bts[i].type_name = key}
    IN  bts[CHOOSE i \in idx : \A j \in idx : j <= i]

block_names(schema_block_) ==
    {schema_block_.block_types[i].type_name : i \in 1..Len(schema_block_.block_types)}

attribute_names(schema_block_) ==
    {schema_block_.attributes[i].name : i \in 1..Len(schema_block_.attributes)}

RECURSIVE parse_resource_state(_, _)
parse_resource_state(current_state, block) ==
    LET d == current_state.d
        kept_attributes ==
            {block.attributes[i].name : i \in
                {j \in 1..Len(block.attributes) :
                    /\ ~block.attributes[j].computed
                    /\ get(d, block.attributes[j].name).t # "null"}}
        kept_blocks ==
            {key \in block_names(block) :
                /\ get(d, key).t # "null"
                /\ block_type(block, key).nesting \in {SINGLE, LIST, SET, MAP}}
        nested(key) ==
            LET nested_block == block_type(block, key)
                current == d[key]
            IN  IF nested_block.nesting = SINGLE
                THEN parse_resource_state(current, nested_block.block)
                ELSE IF nested_block.nesting \in {LIST, SET}
                THEN IF current.t = "list"
                     THEN IF \E i \in 1..Len(current.l) :
                                 isRaised(parse_resource_state(current.l[i], nested_block.block))
                          THEN Raised("AttributeError")
                          ELSE List([i \in 1..Len(current.l) |->
                                        parse_resource_state(current.l[i], nested_block.block)])
                     ELSE IF current.t = "dict" /\ DOMAIN current.d = {}
                     THEN List(<<>>)
                     ELSE Raised("AttributeError")
                ELSE IF current.t = "dict"
                     THEN IF \E k \in DOMAIN current.d :
                                 isRaised(parse_resource_state(current.d[k], nested_block.block))
                          THEN Raised("AttributeError")
                          ELSE Dict([k \in DOMAIN current.d |->
                                        parse_resource_state(current.d[k], nested_block.block)])
                     ELSE Raised("AttributeError")
    IN  IF current_state.t # "dict"
        THEN Raised("AttributeError")
        ELSE IF \E key \in kept_blocks : isRaised(nested(key))
        THEN Raised("AttributeError")
        ELSE Dict([key \in kept_attributes \cup kept_blocks |->
                      IF key \in kept_blocks THEN nested(key) ELSE d[key]])

\* fill_partial_state without the None defaults of the attributes
RECURSIVE fill_partial_state_no_defaults(_, _)
fill_partial_state_no_defaults(state, schema_block_) ==
    LET d == state.d
        nested(key) ==
            LET nested_block_type == block_type(schema_block_, key)
                state_value == get(d, key)
            IN  IF state_value.t = "null"
                THEN Null
                ELSE IF nested_block_type.nesting \in {SINGLE, GROUP}
                THEN IF state_value.t # "dict"
                     THEN Raised("Exception")
                     ELSE fill_partial_state_no_defaults(state_value, nested_block_type.block)
                ELSE IF nested_block_type.nesting \in {LIST, SET}
                THEN IF state_value.t # "list"
                     THEN Raised("Exception")
                     ELSE IF \E i \in 1..Len(state_value.l) :
                                 isRaised(fill_partial_state_no_defaults(state_value.l[i],
                                                             nested_block_type.block))
                     THEN Raised("Exception")
                     ELSE List([i \in 1..Len(state_value.l) |->
                                   fill_partial_state_no_defaults(state_value.l[i],
                                                      nested_block_type.block)])
                ELSE IF nested_block_type.nesting = MAP
                THEN IF state_value.t # "dict"
                     THEN Raised("Exception")
                     ELSE IF \E k \in DOMAIN state_value.d :
                                 isRaised(fill_partial_state_no_defaults(state_value.d[k],
                                                             nested_block_type.block))
                     THEN Raised("Exception")
                     ELSE Dict([k \in DOMAIN state_value.d |->
                                   fill_partial_state_no_defaults(state_value.d[k],
                                                      nested_block_type.block)])
                ELSE Raised("Exception")
    IN  IF state.t # "dict"
        THEN Raised("Exception")
        ELSE IF \E key \in block_names(schema_block_) : isRaised(nested(key))
        THEN Raised("Exception")
        ELSE Dict([key \in DOMAIN d \cup block_names(schema_block_) |->
                      IF key \in block_names(schema_block_) THEN nested(key)
                      ELSE IF key \in DOMAIN d THEN d[key]
                      ELSE Null])

RECURSIVE fill_partial_state(_, _)
fill_partial_state(state, schema_block_) ==
    LET d == state.d
        nested(key) ==
            LET nested_block_type == block_type(schema_block_, key)
                state_value == get(d, key)
            IN  IF state_value.t = "null"
                THEN Null
                ELSE IF nested_block_type.nesting \in {SINGLE, GROUP}
                THEN IF state_value.t # "dict"
                     THEN Raised("Exception")
                     ELSE fill_partial_state(state_value, nested_block_type.block)
                ELSE IF nested_block_type.nesting \in {LIST, SET}
                THEN IF state_value.t # "list"
                     THEN Raised("Exception")
                     ELSE IF \E i \in 1..Len(state_value.l) :
                                 isRaised(fill_partial_state(state_value.l[i],
                                                             nested_block_type.block))
                     THEN Raised("Exception")
                     ELSE List([i \in 1..Len(state_value.l) |->
                                   fill_partial_state(state_value.l[i],
                                                      nested_block_type.block)])
                ELSE IF nested_block_type.nesting = MAP
                THEN IF state_value.t # "dict"
                     THEN Raised("Exception")
                     ELSE IF \E k \in DOMAIN state_value.d :
                                 isRaised(fill_partial_state(state_value.d[k],
                                                             nested_block_type.block))
                     THEN Raised("Exception")
                     ELSE Dict([k \in DOMAIN state_value.d |->
                                   fill_partial_state(state_value.d[k],
                                                      nested_block_type.block)])
                ELSE Raised("Exception")
    IN  IF state.t # "dict"
        THEN Raised("Exception")
        ELSE IF \E key \in block_names(schema_block_) : isRaised(nested(key))
        THEN Raised("Exception")
        ELSE Dict([key \in attribute_names(schema_block_) \cup DOMAIN d
                               \cup block_names(schema_block_) |->
                      IF key \in block_names(schema_block_) THEN nested(key)
                      ELSE IF key \in DOMAIN d THEN d[key]
                      ELSE Null])

\* the schema blocks of the model: the attribute "a", the computed attribute
\* "c", and at most one nested block type "b" of any nesting over a block
\* without nested blocks
AttributeLists ==
    {<<>>, <<[name |-> "a", computed |-> FALSE]>>,
     <<[name |-> "a", computed |-> FALSE], [name |-> "c", computed |-> TRUE]>>}

LeafBlocks == {[attributes |-> as, block_types |-> <<>>] : as \in AttributeLists}

Nestings == {SINGLE, LIST, SET, MAP, GROUP}

Blocks ==
    {[attributes |-> as, block_types |-> bts] :
        as \in AttributeLists,
        bts \in {<<>>} \cup {<<[type_name |-> "b", nesting |-> n, block |-> lb]>> :
                                n \in Nestings, lb \in LeafBlocks}}

MapKeys == {"k"}

\* the value trees that conform to a block and use no computed attribute:
\* every entry may be absent or null
RECURSIVE Conforming(_)
Conforming(block) ==
    LET attrs == {block.attributes[i].name : i \in
                     {j \in 1..Len(block.attributes) : ~block.attributes[j].computed}}
        children(key) ==
            LET bt == block_type(block, key)
                sub == Conforming(bt.block)
            IN  IF bt.nesting \in {SINGLE, GROUP} THEN sub
                ELSE IF bt.nesting \in {LIST, SET}
                THEN {List(q) : q \in UNION {[1..n -> sub] : n \in 0..MaxItems}}
                ELSE {Dict(m) : m \in UNION {[D -> sub] : D \in SUBSET MapKeys}}
        candidates(key) ==
            {Null} \cup (IF key \in block_names(block) THEN children(key) ELSE {Str("x")})
        all == UNION {candidates(key) : key \in attrs \cup block_names(block)}
    IN  {Dict(f) : f \in UNION {{g \in [D -> all] : \A key \in D : g[key] \in candidates(key)} :
                                 D \in SUBSET (attrs \cup block_names(block))}}

\* the schema blocks with two levels of nesting: a nested block type "b" of
\* any nesting over a block with the attribute "a" and a nested block type
\* "n" (a dict or a map) over a block with one attribute
DeepBlocks ==
    {[attributes |-> <<>>,
      block_types |-> <<[type_name |-> "b", nesting |-> n,
                         block |-> [attributes |-> <<[name |-> "a", computed |-> FALSE]>>,
                                    block_types |-> <<[type_name |-> "n", nesting |-> m,
                                                       block |-> lb]>>]]>>] :
        n \in Nestings, m \in {SINGLE, MAP, GROUP},
        lb \in {b \in LeafBlocks : Len(b.attributes) = 1}
               \cup {[attributes |-> <<[name |-> "c", computed |-> TRUE]>>,
                      block_types |-> <<>>]}}

\* the entries under these keys of the value trees a provider may report for
\* a block, which are also the partial trees of a resource config: every
\* attribute, computed or not, and every nested block may be absent, null or
\* set
RECURSIVE Entries(_, _)
Entries(block, keys) ==
    IF keys = {}
    THEN {[key \in {} |-> Null]}
    ELSE LET key == CHOOSE k \in keys : TRUE
             rest == Entries(block, keys \ {key})
             bt == block_type(block, key)
             sub == {Dict(f) : f \in Entries(bt.block, attribute_names(bt.block)
                                                      \cup block_names(bt.block))}
             children ==
                 IF bt.nesting \in {SINGLE, GROUP} THEN sub
                 ELSE IF bt.nesting \in {LIST, SET}
                 THEN {List(q) : q \in UNION {[1..n -> sub] : n \in 0..MaxItems}}
                 ELSE {Dict(m) : m \in UNION {[D -> sub] : D \in SUBSET MapKeys}}
             values ==
                 {Null} \cup (IF key \in block_names(block) THEN children ELSE {Str("x")})
         IN  rest \cup {f @@ (key :> v) : f \in rest, v \in values}

\* a tree without its null entries, at every depth
RECURSIVE strip(_)
strip(x) ==
    IF x.t = "dict"
    THEN Dict([key \in {k \in DOMAIN x.d : x.d[k].t # "null"} |-> strip(x.d[key])])
    ELSE IF x.t = "list"
    THEN List([i \in 1..Len(x.l) |-> strip(x.l[i])])
    ELSE x

\* nothing was given to fill_partial_state or parse_resource_state
TreeIdle ==
    /\ schema_block = [attributes |-> <<>>, block_types |-> <<>>]
    /\ state_tree = NotRun
    /\ filled = NotRun
    /\ parsed = NotRun

-----------------------------------------------------------------------------
(* The plugins of a compile that read the parameters *)

\* what a plugin returns: an Unknown, or a value
Unknown == [cls |-> "Unknown", value |-> None]
Known(v) == [cls |-> "dict", value |-> v]
isUnknown(x) == x.cls = "Unknown"

\* [cache, ret]: the cached dict when there is one; Unknown when the
\* parameter is not set; else the parameter, which is then cached
get_last_resource_parameter(cache_dict, stored) ==
    IF cache_dict # None
    THEN [cache |-> cache_dict, ret |-> Known(Val(cache_dict))]
    ELSE IF stored = None
    THEN [cache |-> cache_dict, ret |-> Unknown]
    ELSE [cache |-> Some(json_loads(Val(stored))), ret |-> Known(json_loads(Val(stored)))]

\* k: the two caches and the two parameters; a subscript with a missing key
\* raises KeyError
safe_resource_state(k, current_config) ==
    LET c == get_last_resource_parameter(k.resource_configs, k.config_param)
        k1 == [k EXCEPT !.resource_configs = c.cache]
        previous_config_wrapper == c.ret.value
        s == get_last_resource_parameter(k1.resource_states, k1.param)
        k2 == [k1 EXCEPT !.resource_states = s.cache]
        previous_state_wrapper == s.ret.value
    IN  IF isUnknown(c.ret) THEN Return(k1, Unknown)
        ELSE IF "tag" \notin DOMAIN previous_config_wrapper THEN Raise(k1, "KeyError", FALSE)
        ELSE IF "config" \notin DOMAIN previous_config_wrapper THEN Raise(k1, "KeyError", FALSE)
        ELSE IF current_config # previous_config_wrapper["config"] THEN Return(k1, Unknown)
        ELSE IF isUnknown(s.ret) THEN Return(k2, Unknown)
        ELSE IF "tag" \notin DOMAIN previous_state_wrapper THEN Raise(k2, "KeyError", FALSE)
        ELSE IF previous_config_wrapper["tag"] # previous_state_wrapper["tag"]
        THEN Return(k2, Unknown)
        ELSE IF "state" \notin DOMAIN previous_config_wrapper THEN Raise(k2, "KeyError", FALSE)
        ELSE Return(k2, Known(previous_config_wrapper["state"]))

inmanta_reset_state(k) == [k EXCEPT !.resource_states = None, !.resource_configs = None]

\* no compile has read a parameter, and no configuration parameter is set
CompileIdle ==
    /\ config_param = None
    /\ resource_states = None
    /\ resource_configs = None

-----------------------------------------------------------------------------
(* TerraformProvider *)

CORE_PROTOCOL_VERSION == 1
SUPPORTED_VERSIONS == {4, 5}

\* the handshake line the subprocess prints: a sequence of tokens, where SEP is
\* the "|" character and every other token is a run of other characters
SEP == "|"

\* the fields a handshake may hold, by position
Handshakes ==
    {<<core, proto, kind, "/tmp/plugin.sock", app, "tls-cert">> :
        core \in {"1", "2", "x"}, proto \in {"4", "5", "6"},
        kind \in {"unix", "tcp"}, app \in {"grpc", "netrpc"}}

RECURSIVE join(_)
\* "|".join(parts)
join(parts) ==
    IF parts = <<>> THEN <<>>
    ELSE IF Len(parts) = 1 THEN <<parts[1]>>
    ELSE <<parts[1], SEP>> \o join(Tail(parts))

\* the lines a subprocess may print: a handshake cut after any number of fields
Lines == {join(SubSeq(h, 1, n)) : h \in Handshakes, n \in 0..MaxFields}

RECURSIVE split(_)
\* line.split("|"): the text between the separators ("" where there is none)
split(line) ==
    LET seps == {i \in 1..Len(line) : line[i] = SEP}
        first == CHOOSE i \in seps : \A j \in seps : i <= j
        text(toks) == IF toks = <<>> THEN "" ELSE toks[1]
    IN  IF seps = {}
        THEN <<text(line)>>
        ELSE <<text(SubSeq(line, 1, first - 1))>> \o split(SubSeq(line, first + 1, Len(line)))

\* int(s): the number a string spells, or a ValueError
int(s) ==
    LET digits == [x \in {"1", "2", "4", "5", "6"} |->
                      CASE x = "1" -> 1 [] x = "2" -> 2 [] x = "4" -> 4
                        [] x = "5" -> 5 [] x = "6" -> 6]
    IN  IF s \in DOMAIN digits
        THEN [error |-> "none", value |-> digits[s]]
        ELSE [error |-> "ValueError", value |-> 0]

\* [error, value]: the address of the provider, or the exception raised
\* (parts[k] of the code is parts[k + 1] here)
_parse_proto(line) ==
    LET parts == split(line)
        fail(e) == [error |-> e, value |-> None]
        core_version == int(parts[1])
        proto_version == int(parts[2])
        proto_type == parts[3]
    IN  IF Len(parts) < 4 THEN fail("PluginInitException")
        ELSE IF core_version.error # "none" THEN fail(core_version.error)
        ELSE IF core_version.value # CORE_PROTOCOL_VERSION THEN fail("PluginInitException")
        ELSE IF proto_version.error # "none" THEN fail(proto_version.error)
        ELSE IF proto_version.value \notin SUPPORTED_VERSIONS THEN fail("PluginInitException")
        ELSE IF proto_type # "unix" THEN fail("PluginInitException")
        ELSE IF Len(parts) < 5 THEN fail("IndexError")
        ELSE IF parts[5] # "grpc" THEN fail("PluginInitException")
        ELSE [error |-> "none", value |-> Some(<<proto_type, "://", parts[4]>>)]

\* The provider object, as a record p with the fields of TerraformProvider, the
\* subprocesses, and the trace of what the current call did

\* ready that does not look at _configured
ready_without_configure(p) == p._proc # None /\ p._stub # None

ready(p) == p._proc # None /\ p._stub # None /\ p._configured

\* the stub property
stub(p) ==
    IF p._stub = None
    THEN Raise(p, "PluginNotReadyException", FALSE)
    ELSE Return(p, p._stub)

\* the schema property; resp is the answer to GetSchema, if it is asked
schema(p, resp) ==
    IF p._proc = None \/ p._stub = None
    THEN Raise(p, "PluginNotReadyException", FALSE)
    ELSE IF p._schema = None
    THEN LET p1 == Log([p EXCEPT !._schema = Some(resp)],
                       Event("GetSchema", "schema", None, Some(resp)))
         IN  Return(p1, p1._schema)
    ELSE Return(p, p._schema)

ConfigureResponses == [diagnostics : BOOLEAN]
\* a GetProviderSchema response: the schema, and whether it carries diagnostics
SchemaResponses == [provider : {"block"}, diagnostics : BOOLEAN]

configure(p, schema_resp, result) ==
    LET s == schema(p, schema_resp)
        p1 == Log(s.o, Event("Configure", "configure", None, Some(result)))
    IN  IF s.error # "none" THEN s
        ELSE IF result.diagnostics THEN Raise(p1, "PluginResponseException", TRUE)
        ELSE Return([p1 EXCEPT !._configured = TRUE], None)

\* open() that builds the channel and the stub before it parses the handshake
open_channel_first(p, line) ==
    LET pid == Len(p.procs) + 1
        p1 == Log([p EXCEPT !._proc = Some(pid), !.procs = Append(@, "running")],
                  Event("Popen", "open", None, Some(pid)))
        proto_addr == _parse_proto(line)
        p2 == Log([p1 EXCEPT !._stdout_thread = Some("started"),
                             !._stderr_thread = Some("started"),
                             !._stub = Some([channel |-> line])],
                  Event("insecure_channel", "open", None, Some(line)))
    IN  IF p._proc # None THEN Return(p, None)
        ELSE IF proto_addr.error # "none" THEN Raise(p2, proto_addr.error, FALSE)
        ELSE Return(p2, None)

\* open() without the test of the process handle: it spawns at every call
open_spawns_always(p, line) ==
    LET pid == Len(p.procs) + 1
        p1 == Log([p EXCEPT !._proc = Some(pid), !.procs = Append(@, "running")],
                  Event("Popen", "open", None, Some(pid)))
        proto_addr == _parse_proto(line)
        p2 == Log([p1 EXCEPT !._stdout_thread = Some("started"),
                             !._stderr_thread = Some("started"),
                             !._stub = Some([channel |-> Val(proto_addr.value)])],
                  Event("insecure_channel", "open", None, proto_addr.value))
    IN  IF proto_addr.error # "none" THEN Raise(p1, proto_addr.error, FALSE)
        ELSE Return(p2, None)

open(p, line) ==
    LET pid == Len(p.procs) + 1
        p1 == Log([p EXCEPT !._proc = Some(pid), !.procs = Append(@, "running")],
                  Event("Popen", "open", None, Some(pid)))
        proto_addr == _parse_proto(line)
        p2 == Log([p1 EXCEPT !._stdout_thread = Some("started"),
                             !._stderr_thread = Some("started"),
                             !._stub = Some([channel |-> Val(proto_addr.value)])],
                  Event("insecure_channel", "open", None, proto_addr.value))
    IN  IF p._proc # None THEN Return(p, None)
        ELSE IF proto_addr.error # "none" THEN Raise(p1, proto_addr.error, FALSE)
        ELSE Return(p2, None)

\* the ways the Stop RPC may end
StopOutcomes == {"ok", "RpcError"}

close(p, stopped) ==
    LET p1 == [p EXCEPT !._configured = FALSE]
        p2 == IF p1._stub # None
              THEN Log(p1, Event("Stop", "close", None, Some(stopped)))
              ELSE p1
        p3 == [p2 EXCEPT !._stub = None]
        p4 == IF p3._proc # None
              THEN Log(Log([p3 EXCEPT !.procs[Val(p3._proc)] = "killed", !._proc = None],
                           Event("kill", "close", None, p3._proc)),
                       Event("wait", "close", None, p3._proc))
              ELSE p3
        p5 == IF p4._stdout_thread # None
              THEN Log([p4 EXCEPT !._stdout_thread = Some("joined")],
                       Event("join", "close", None, Some("stdout")))
              ELSE p4
        p6 == IF p5._stderr_thread # None
              THEN Log([p5 EXCEPT !._stderr_thread = Some("joined")],
                       Event("join", "close", None, Some("stderr")))
              ELSE p5
    IN  IF p1._stub # None /\ stopped # "ok"
        THEN Raise(p2, stopped, FALSE)
        ELSE Return(p6, None)

Streams == {"stdout", "stderr"}

\* no close() is running, and the model does not follow the _io_logger threads
IoIdle ==
    /\ close_pc = "idle"
    /\ io_pc = [s \in Streams |-> "none"]
    /\ pipe = [s \in Streams |-> 0]
    /\ logged = [s \in Streams |-> 0]

\* the provider object at the start of a call
CurProvider ==
    [_proc |-> _proc, _stub |-> _stub, _configured |-> _configured,
     _stdout_thread |-> _stdout_thread, _stderr_thread |-> _stderr_thread,
     _schema |-> _schema, procs |-> procs, trace |-> <<>>]

\* the provider the handler gives to the resource client: started and configured
ProviderReady ==
    /\ _proc = Some(1)
    /\ procs = <<"running">>
    /\ _stub = Some([channel |-> <<"unix", "://", "/tmp/plugin.sock">>])
    /\ _configured = TRUE
    /\ _stdout_thread = Some("started")
    /\ _stderr_thread = Some("started")
    /\ _schema = Some([provider |-> "block", diagnostics |-> FALSE])
    /\ client = TRUE
    /\ IoIdle

CommitProvider(op, arg, r) ==
    /\ _proc' = r.o._proc
    /\ _stub' = r.o._stub
    /\ _configured' = r.o._configured
    /\ _stdout_thread' = r.o._stdout_thread
    /\ _stderr_thread' = r.o._stderr_thread
    /\ _schema' = r.o._schema
    /\ procs' = r.o.procs
    /\ last' = [op |-> op, arg |-> arg, ret |-> r.ret, error |-> r.error,
                diag |-> r.diag, trace |-> r.o.trace]
    /\ UNCHANGED client
    /\ UNCHANGED io_vars
    /\ UNCHANGED resource_vars
    /\ UNCHANGED compile_vars
    /\ UNCHANGED tree_vars

\* a provider object just constructed, and no resource client yet
InitProvider ==
    /\ _proc = None
    /\ _stub = None
    /\ _configured = FALSE
    /\ _stdout_thread = None
    /\ _stderr_thread = None
    /\ _schema = None
    /\ procs = <<>>
    /\ client = FALSE
    /\ IoIdle
    /\ backend = "inmanta"
    /\ resource_config = "cfgA"
    /\ config_hash = dict_hash(resource_config)
    /\ _state = None
    /\ _private = None
    /\ _state_fact = None
    /\ param = None
    /\ private_file = None
    /\ producer = None
    /\ repeated = FALSE
    /\ CompileIdle
    /\ TreeIdle
    /\ last = [op |-> "init", arg |-> None, ret |-> None, error |-> "none",
               diag |-> FALSE, trace |-> <<>>]

Open ==
    /\ _proc # None \/ Len(procs) < MaxSpawns
    /\ \E line \in Lines : CommitProvider("open", Some(line), open(CurProvider, line))

Configure ==
    \E s \in SchemaResponses : \E result \in ConfigureResponses :
        CommitProvider("configure", None, configure(CurProvider, s, result))

Close ==
    \E stopped \in StopOutcomes :
        CommitProvider("close", None, close(CurProvider, stopped))

GetStub == CommitProvider("stub", None, stub(CurProvider))

GetSchema ==
    \E s \in SchemaResponses : CommitProvider("schema", None, schema(CurProvider, s))

NextProvider ==
    \/ Open
    \/ Configure
    \/ Close
    \/ GetStub
    \/ GetSchema

SpecProvider == InitProvider /\ [][NextProvider]_vars

-----------------------------------------------------------------------------
(* close() step by step, next to the two _io_logger threads and the        *)
(* subprocess                                                              *)

\* the lines a stream has carried so far: given to the logger, held by the
\* thread that read one and has not logged it yet, or unread
Written(s) == logged[s] + pipe[s] + (IF io_pc[s] = "log" THEN 1 ELSE 0)

\* a provider after open() and configure(): the subprocess runs and both
\* threads are at the top of their loop
InitStop ==
    /\ _proc = Some(1)
    /\ procs = <<"running">>
    /\ _stub = Some([channel |-> <<"unix", "://", "/tmp/plugin.sock">>])
    /\ _configured = TRUE
    /\ _stdout_thread = Some("started")
    /\ _stderr_thread = Some("started")
    /\ _schema = Some([provider |-> "block", diagnostics |-> FALSE])
    /\ client = FALSE
    /\ close_pc = "idle"
    /\ io_pc = [s \in Streams |-> "test"]
    /\ pipe = [s \in Streams |-> 0]
    /\ logged = [s \in Streams |-> 0]
    /\ backend = "inmanta"
    /\ resource_config = "cfgA"
    /\ config_hash = dict_hash(resource_config)
    /\ _state = None
    /\ _private = None
    /\ _state_fact = None
    /\ param = None
    /\ private_file = None
    /\ producer = None
    /\ repeated = FALSE
    /\ CompileIdle
    /\ TreeIdle
    /\ last = [op |-> "init", arg |-> None, ret |-> None, error |-> "none",
               diag |-> FALSE, trace |-> <<>>]

\* what no step of close(), of a thread or of the subprocess touches
StopFrame ==
    /\ UNCHANGED <<_schema, client, last>>
    /\ UNCHANGED resource_vars
    /\ UNCHANGED compile_vars
    /\ UNCHANGED tree_vars

\* the subprocess writes a line to one of its streams
Write(s) ==
    /\ procs[1] = "running"
    /\ Written(s) < MaxLines
    /\ pipe' = [pipe EXCEPT ![s] = @ + 1]
    /\ UNCHANGED <<_proc, _stub, _configured, _stdout_thread, _stderr_thread, procs,
                   close_pc, io_pc, logged>>
    /\ StopFrame

\* _io_logger: while self._proc
IoTest(s) ==
    /\ io_pc[s] = "test"
    /\ io_pc' = [io_pc EXCEPT ![s] = IF _proc # None THEN "read" ELSE "exit"]
    /\ UNCHANGED <<_proc, _stub, _configured, _stdout_thread, _stderr_thread, procs,
                   close_pc, pipe, logged>>
    /\ StopFrame

\* _io_logger: stream.readline(), which blocks on an empty stream of a
\* running subprocess and returns an empty line at the end of the stream
IoRead(s) ==
    /\ io_pc[s] = "read"
    /\ pipe[s] > 0 \/ procs[1] = "killed"
    /\ IF pipe[s] > 0
       THEN /\ pipe' = [pipe EXCEPT ![s] = @ - 1]
            /\ io_pc' = [io_pc EXCEPT ![s] = "log"]
       ELSE /\ pipe' = pipe
            /\ io_pc' = [io_pc EXCEPT ![s] = "test"]
    /\ UNCHANGED <<_proc, _stub, _configured, _stdout_thread, _stderr_thread, procs,
                   close_pc, logged>>
    /\ StopFrame

\* _io_logger: logger.info(line)
IoLog(s) ==
    /\ io_pc[s] = "log"
    /\ logged' = [logged EXCEPT ![s] = @ + 1]
    /\ io_pc' = [io_pc EXCEPT ![s] = "test"]
    /\ UNCHANGED <<_proc, _stub, _configured, _stdout_thread, _stderr_thread, procs,
                   close_pc, pipe>>
    /\ StopFrame

\* close(): self._configured = False, up to the Stop RPC
CloseBegin ==
    /\ close_pc = "idle"
    /\ _configured' = FALSE
    /\ close_pc' = IF _stub # None THEN "stop" ELSE "kill"
    /\ UNCHANGED <<_proc, _stub, _stdout_thread, _stderr_thread, procs,
                   io_pc, pipe, logged>>
    /\ StopFrame

\* the subprocess answers the Stop RPC, or the RPC fails
StopAnswered ==
    /\ close_pc = "stop"
    /\ \E stopped \in StopOutcomes :
           IF stopped = "ok"
           THEN /\ _stub' = None
                /\ close_pc' = "kill"
           ELSE /\ _stub' = _stub
                /\ close_pc' = "raised"
    /\ UNCHANGED <<_proc, _configured, _stdout_thread, _stderr_thread, procs,
                   io_pc, pipe, logged>>
    /\ StopFrame

\* close(): self._proc.kill()
Kill ==
    /\ close_pc = "kill"
    /\ IF _proc # None
       THEN /\ procs' = [procs EXCEPT ![Val(_proc)] = "killed"]
            /\ close_pc' = "wait"
       ELSE /\ procs' = procs
            /\ close_pc' = "join_stdout"
    /\ UNCHANGED <<_proc, _stub, _configured, _stdout_thread, _stderr_thread,
                   io_pc, pipe, logged>>
    /\ StopFrame

\* close(): self._proc.wait(5) returns, then self._proc = None; or the wait
\* times out
Wait ==
    /\ close_pc = "wait"
    /\ \E exited \in BOOLEAN :
           IF exited
           THEN /\ _proc' = None
                /\ close_pc' = "join_stdout"
           ELSE /\ _proc' = _proc
                /\ close_pc' = "raised"
    /\ UNCHANGED <<_stub, _configured, _stdout_thread, _stderr_thread, procs,
                   io_pc, pipe, logged>>
    /\ StopFrame

\* close(): self._stdout_thread.join(5), which returns when the thread has
\* ended or after five seconds
JoinStdout ==
    /\ close_pc = "join_stdout"
    /\ _stdout_thread' = IF _stdout_thread # None THEN Some("joined") ELSE None
    /\ close_pc' = "join_stderr"
    /\ UNCHANGED <<_proc, _stub, _configured, _stderr_thread, procs,
                   io_pc, pipe, logged>>
    /\ StopFrame

\* close(): self._stderr_thread.join(5)
JoinStderr ==
    /\ close_pc = "join_stderr"
    /\ _stderr_thread' = IF _stderr_thread # None THEN Some("joined") ELSE None
    /\ close_pc' = "done"
    /\ UNCHANGED <<_proc, _stub, _configured, _stdout_thread, procs,
                   io_pc, pipe, logged>>
    /\ StopFrame

IoStep == \E s \in Streams : IoTest(s) \/ IoRead(s) \/ IoLog(s)

CloseStep == CloseBegin \/ Kill \/ Wait \/ JoinStdout \/ JoinStderr

NextStop ==
    \/ \E s \in Streams : Write(s)
    \/ \E s \in Streams : IoTest(s)
    \/ \E s \in Streams : IoRead(s)
    \/ \E s \in Streams : IoLog(s)
    \/ CloseBegin
    \/ StopAnswered
    \/ Kill
    \/ Wait
    \/ JoinStdout
    \/ JoinStderr

SpecStop == InitStop /\ [][NextStop]_vars

\* The threads are scheduled and close() goes on: every step of the code that
\* can be taken is taken in the end; wait(5) and join(5) return after five
\* seconds at most.  Nothing makes the subprocess answer the Stop RPC.
SpecStopFair == SpecStop /\ WF_vars(IoStep) /\ WF_vars(CloseStep)

-----------------------------------------------------------------------------
(* The state machine *)

\* the state object and its stores, at the start of a call
Cur ==
    [_state |-> _state, _private |-> _private, _state_fact |-> _state_fact,
     param |-> param, file |-> private_file, trace |-> <<>>]

\* what the state object shows: its state and private as its properties return
\* them, and what is persisted
Observe(o) ==
    [state |-> state_get(o)._state, private |-> private_get(o)._private,
     param |-> o.param, file |-> o.file]

LastEvent(trace, evs) ==
    LET idx == {i \in 1..Len(trace) : trace[i].ev \in evs}
    IN  IF idx = {} THEN "" ELSE trace[CHOOSE i \in idx : \A j \in idx : j <= i].ev

\* the configuration that produced the stored state, after a call with trace t:
\* that of the Create or Update that stored it; none for an imported state
Producer(op, arg, t) ==
    LET e == LastEvent(t, {"state.setter", "purge"})
    IN  IF e = "purge" THEN None
        ELSE IF e = "state.setter"
        THEN IF op \in {"create", "update"} THEN arg
             ELSE IF op = "import" THEN None
             ELSE producer
        ELSE producer

\* the call (op, arg) is a Read, Update or Delete made right after the same
\* call, which had returned
Repeats(op, arg) ==
    /\ op \in {"read", "update", "delete"}
    /\ last.op = op
    /\ last.arg = arg
    /\ last.error = "none"

Commit(op, arg, r) ==
    /\ r.need = "none"
    /\ _state' = r.o._state
    /\ _private' = r.o._private
    /\ _state_fact' = r.o._state_fact
    /\ param' = r.o.param
    /\ private_file' = r.o.file
    /\ last' = [op |-> op, arg |-> arg, ret |-> r.ret, error |-> r.error,
                diag |-> r.diag, trace |-> r.o.trace]
    /\ producer' = Producer(op, arg, r.o.trace)
    /\ repeated' = Repeats(op, arg)
    /\ UNCHANGED <<backend, resource_config, config_hash>>
    /\ UNCHANGED provider_vars
    /\ UNCHANGED compile_vars
    /\ UNCHANGED tree_vars

Init ==
    /\ backend \in Backends
    /\ resource_config \in Configs
    /\ config_hash = dict_hash(resource_config)
    /\ _state = None
    /\ _private = None
    /\ _state_fact = None
    /\ param \in {None} \cup
           {Some(json_dumps(IF backend = "base" THEN Some(s) ELSE s)) : s \in States}
    /\ private_file \in IF param = None
                        THEN {IF backend = "base" THEN None ELSE Some(b64encode(EMPTY_BYTES))}
                        ELSE {Some(b64encode(p)) : p \in Privates}
    /\ last = [op |-> "init", arg |-> None, ret |-> None, error |-> "none",
               diag |-> FALSE, trace |-> <<>>]
    /\ producer = None
    /\ repeated = FALSE
    /\ ProviderReady
    /\ CompileIdle
    /\ TreeIdle

\* a new handler run: pre() touches the private file and builds a new state
\* object, stamped with the hash of the desired configuration of this run
NewSession ==
    \E c \in Configs :
        /\ resource_config' = c
        /\ config_hash' = dict_hash(c)
        /\ _state' = None
        /\ _private' = None
        /\ _state_fact' = None
        /\ private_file' = IF backend = "inmanta" /\ private_file = None
                           THEN Some(b64encode(EMPTY_BYTES))
                           ELSE private_file
        /\ last' = [op |-> "new_session", arg |-> Some(c), ret |-> None,
                    error |-> "none", diag |-> FALSE, trace |-> <<>>]
        /\ repeated' = FALSE
        /\ UNCHANGED <<backend, param, producer>>
        /\ UNCHANGED provider_vars
        /\ UNCHANGED compile_vars
        /\ UNCHANGED tree_vars

\* Each method is run on the responses received so far: it either finishes or
\* is blocked in its next RPC, whose response is then chosen.
Import ==
    \E id \in Ids :
    \E q1 \in NextResponses(import_resource(Cur, id, <<>>)) :
    \E q2 \in NextResponses(import_resource(Cur, id, q1)) :
        Commit("import", Some(id), import_resource(Cur, id, q1 \o q2))

Read ==
    \E q1 \in NextResponses(read_resource(Cur, <<>>)) :
        Commit("read", None, read_resource(Cur, q1))

Create ==
    \E q1 \in NextResponses(create_resource(Cur, resource_config, <<>>)) :
    \E q2 \in NextResponses(create_resource(Cur, resource_config, q1)) :
        Commit("create", Some(resource_config),
               create_resource(Cur, resource_config, q1 \o q2))

Update ==
    \E q1 \in NextResponses(update_resource(Cur, resource_config, <<>>)) :
    \E q2 \in NextResponses(update_resource(Cur, resource_config, q1)) :
    \E q3 \in NextResponses(update_resource(Cur, resource_config, q1 \o q2)) :
    \E q4 \in NextResponses(update_resource(Cur, resource_config, q1 \o q2 \o q3)) :
    \E q5 \in NextResponses(update_resource(Cur, resource_config,
                                            q1 \o q2 \o q3 \o q4)) :
        Commit("update", Some(resource_config),
               update_resource(Cur, resource_config, q1 \o q2 \o q3 \o q4 \o q5))

Delete ==
    \E q1 \in NextResponses(delete_resource(Cur, <<>>)) :
    \E q2 \in NextResponses(delete_resource(Cur, q1)) :
        Commit("delete", None, delete_resource(Cur, q1 \o q2))

Next ==
    \/ NewSession
    \/ Import
    \/ Read
    \/ Create
    \/ Update
    \/ Delete

Spec == Init /\ [][Next]_vars

-----------------------------------------------------------------------------
(* The read phase of the handler *)

\* read_resource() of the handler that reports the resource as purged on any
\* error of the import
handler_read_resource_catches_all(o, terraform_id, resps) ==
    LET after_import(imported) ==
            IF imported.need # "none" THEN imported
            ELSE IF imported.error # "none"
            THEN Raise(imported.o, "ResourcePurged", FALSE)
            ELSE imported
        after_read(read, rest) ==
            IF read.need # "none" \/ read.error # "none" THEN read
            ELSE IF read.ret = None /\ terraform_id # None
            THEN after_import(import_resource(read.o, Val(terraform_id), rest))
            ELSE IF read.ret = None THEN Raise(read.o, "ResourcePurged", FALSE)
            ELSE read
    IN  IF resps = <<>> \/ read_resource(o, <<>>).need = "none"
        THEN after_read(read_resource(o, <<>>), resps)
        ELSE after_read(read_resource(o, <<Head(resps)>>), Tail(resps))

\* TerraformResourceHandler.read_resource, up to the current state it goes on
\* with; resps are the responses to the RPCs of the client's read_resource and
\* then of its import_resource: the lookup error of the import is logged and
\* the resource is reported as purged
handler_read_resource(o, terraform_id, resps) ==
    LET after_import(imported) ==
            IF imported.need # "none" THEN imported
            ELSE IF imported.error = "ResourceLookupException"
            THEN Raise(imported.o, "ResourcePurged", FALSE)
            ELSE imported
        after_read(read, rest) ==
            IF read.need # "none" \/ read.error # "none" THEN read
            ELSE IF read.ret = None /\ terraform_id # None
            THEN after_import(import_resource(read.o, Val(terraform_id), rest))
            ELSE IF read.ret = None THEN Raise(read.o, "ResourcePurged", FALSE)
            ELSE read
    IN  IF resps = <<>> \/ read_resource(o, <<>>).need = "none"
        THEN after_read(read_resource(o, <<>>), resps)
        ELSE after_read(read_resource(o, <<Head(resps)>>), Tail(resps))

\* the handler gives the client a TerraformResourceStateInmanta
HandlerRead ==
    /\ backend = "inmanta"
    /\ \E terraform_id \in {None} \cup {Some(id) : id \in Ids} :
       \E q1 \in NextResponses(handler_read_resource(Cur, terraform_id, <<>>)) :
       \E q2 \in NextResponses(handler_read_resource(Cur, terraform_id, q1)) :
       \E q3 \in NextResponses(handler_read_resource(Cur, terraform_id, q1 \o q2)) :
           Commit("handler_read", terraform_id,
                  handler_read_resource(Cur, terraform_id, q1 \o q2 \o q3))

NextHandler ==
    \/ NewSession
    \/ Create
    \/ Delete
    \/ HandlerRead

SpecHandler == Init /\ [][NextHandler]_vars

-----------------------------------------------------------------------------
(* A handler session: the lifecycle of the provider and the client built  *)
(* on it                                                                   *)

\* TerraformResourceClient.__init__
client_init(p) ==
    IF ~ready(p) THEN Raise(p, "RuntimeError", FALSE) ELSE Return(p, None)

\* A method of the client run on the provider p.  blocked is the method up to
\* its first RPC and done the method on all its responses; the method reads
\* self.provider.stub for each RPC, and before the first one
\* self.resource_schema when uses_schema; schema_resp answers GetSchema if the
\* schema property asks it.  Gives the provider and the outcome of the method.
on_provider(p, uses_schema, schema_resp, blocked, done) ==
    LET s == IF uses_schema THEN schema(p, schema_resp) ELSE Return(p, None)
        n == Len(blocked.o.trace)
        splice(o) == [o EXCEPT !.trace = SubSeq(@, 1, n) \o s.o.trace
                                          \o SubSeq(@, n + 1, Len(@))]
        st == stub(s.o)
    IN  IF blocked.need = "none" THEN [p |-> p, r |-> blocked]
        ELSE IF s.error # "none"
        THEN [p |-> s.o, r |-> Raise(splice(blocked.o), s.error, FALSE)]
        ELSE IF st.error # "none"
        THEN [p |-> s.o, r |-> Raise(splice(blocked.o), st.error, FALSE)]
        ELSE [p |-> s.o, r |-> [done EXCEPT !.o = splice(@)]]

SessionCommit(op, arg, x) ==
    /\ x.r.need = "none"
    /\ _state' = x.r.o._state
    /\ _private' = x.r.o._private
    /\ _state_fact' = x.r.o._state_fact
    /\ param' = x.r.o.param
    /\ private_file' = x.r.o.file
    /\ last' = [op |-> op, arg |-> arg, ret |-> x.r.ret, error |-> x.r.error,
                diag |-> x.r.diag, trace |-> x.r.o.trace]
    /\ producer' = Producer(op, arg, x.r.o.trace)
    /\ repeated' = Repeats(op, arg)
    /\ _schema' = x.p._schema
    /\ UNCHANGED <<_proc, _stub, _configured, _stdout_thread, _stderr_thread,
                   procs, client, io_vars>>
    /\ UNCHANGED <<backend, resource_config, config_hash>>
    /\ UNCHANGED compile_vars
    /\ UNCHANGED tree_vars

\* the handshake lines of a provider that speaks the protocol
ValidLines == {line \in Lines : _parse_proto(line).error = "none"}

\* the responses drawn for a method of the client: none when there is no stub
\* to ask
Asked(responses) == IF _stub = None THEN {<<>>} ELSE responses

\* the answer drawn for GetSchema: none when the schema property does not ask
SchemaAsked == IF _schema = None /\ _stub # None THEN SchemaResponses ELSE {None}

SessionOpen ==
    /\ _proc # None \/ Len(procs) < MaxSpawns
    /\ \E line \in ValidLines :
           CommitProvider("open", Some(line), open(CurProvider, line))

BuildClient ==
    LET r == client_init(CurProvider)
    IN  /\ client' = (client \/ r.error = "none")
        /\ last' = [op |-> "client", arg |-> None, ret |-> r.ret, error |-> r.error,
                    diag |-> r.diag, trace |-> r.o.trace]
        /\ UNCHANGED <<_proc, _stub, _configured, _stdout_thread, _stderr_thread,
                       _schema, procs, io_vars>>
        /\ UNCHANGED resource_vars
        /\ UNCHANGED compile_vars
        /\ UNCHANGED tree_vars

SessionImport ==
    /\ client
    /\ \E id \in Ids :
       \E q1 \in Asked(NextResponses(import_resource(Cur, id, <<>>))) :
       \E q2 \in Asked(NextResponses(import_resource(Cur, id, q1))) :
           SessionCommit("import", Some(id),
                         on_provider(CurProvider, FALSE, None,
                                     import_resource(Cur, id, <<>>),
                                     import_resource(Cur, id, q1 \o q2)))

SessionRead ==
    /\ client
    /\ \E q1 \in Asked(NextResponses(read_resource(Cur, <<>>))) :
           SessionCommit("read", None,
                         on_provider(CurProvider, FALSE, None,
                                     read_resource(Cur, <<>>),
                                     read_resource(Cur, q1)))

SessionCreate ==
    /\ client
    /\ \E s \in SchemaAsked :
       \E q1 \in Asked(NextResponses(create_resource(Cur, resource_config, <<>>))) :
       \E q2 \in Asked(NextResponses(create_resource(Cur, resource_config, q1))) :
           SessionCommit("create", Some(resource_config),
                         on_provider(CurProvider, TRUE, s,
                                     create_resource(Cur, resource_config, <<>>),
                                     create_resource(Cur, resource_config, q1 \o q2)))

SessionUpdate ==
    /\ client
    /\ \E s \in SchemaAsked :
       \E q1 \in Asked(NextResponses(update_resource(Cur, resource_config, <<>>))) :
       \E q2 \in Asked(NextResponses(update_resource(Cur, resource_config, q1))) :
       \E q3 \in Asked(NextResponses(update_resource(Cur, resource_config, q1 \o q2))) :
       \E q4 \in Asked(NextResponses(update_resource(Cur, resource_config, q1 \o q2 \o q3))) :
       \E q5 \in Asked(NextResponses(update_resource(Cur, resource_config,
                                               q1 \o q2 \o q3 \o q4))) :
           SessionCommit("update", Some(resource_config),
                         on_provider(CurProvider, TRUE, s,
                                     update_resource(Cur, resource_config, <<>>),
                                     update_resource(Cur, resource_config,
                                                     q1 \o q2 \o q3 \o q4 \o q5)))

SessionDelete ==
    /\ client
    /\ \E q1 \in Asked(NextResponses(delete_resource(Cur, <<>>))) :
       \E q2 \in Asked(NextResponses(delete_resource(Cur, q1))) :
           SessionCommit("delete", None,
                         on_provider(CurProvider, FALSE, None,
                                     delete_resource(Cur, <<>>),
                                     delete_resource(Cur, q1 \o q2)))

NextSession ==
    \/ SessionOpen
    \/ Configure
    \/ Close
    \/ BuildClient
    \/ SessionImport
    \/ SessionRead
    \/ SessionCreate
    \/ SessionUpdate
    \/ SessionDelete

SpecSession == InitProvider /\ [][NextSession]_vars

-----------------------------------------------------------------------------
(* The compiles of the model next to the deployments of the resource *)

\* what a compile sees: its caches and the two parameters of the resource
CurCompile ==
    [resource_states |-> resource_states, resource_configs |-> resource_configs,
     config_param |-> config_param, param |-> param]

\* the records of a generation that is not registered
UnregisteredRecords ==
    {[k \in {"state", "config_hash", STATE_DICT_GENERATION_MARKER} |->
         IF k = "state" THEN Some(s)
         ELSE IF k = "config_hash" THEN dict_hash(c)
         ELSE "Bubo"] : s \in States, c \in Configs}

\* the parameters as deployments left them: no state, a legacy state dict or
\* a record of another generation; no configuration parameter, which no
\* deployment writes
InitCompile ==
    /\ backend = "inmanta"
    /\ resource_config \in Configs
    /\ config_hash = dict_hash(resource_config)
    /\ _state = None
    /\ _private = None
    /\ _state_fact = None
    /\ param \in {None} \cup {Some(json_dumps(s)) : s \in States \cup UnregisteredRecords}
    /\ private_file = Some(b64encode(EMPTY_BYTES))
    /\ last = [op |-> "init", arg |-> None, ret |-> None, error |-> "none",
               diag |-> FALSE, trace |-> <<>>]
    /\ producer = None
    /\ repeated = FALSE
    /\ ProviderReady
    /\ CompileIdle
    /\ TreeIdle

\* the model reads the safe state of the resource, with its current
\* configuration
SafeResourceState ==
    \E current_config \in Configs :
        LET r == safe_resource_state(CurCompile, current_config)
        IN  /\ resource_states' = r.o.resource_states
            /\ resource_configs' = r.o.resource_configs
            /\ last' = [op |-> "safe_resource_state", arg |-> Some(current_config),
                        ret |-> r.ret, error |-> r.error, diag |-> FALSE,
                        trace |-> <<>>]
            /\ UNCHANGED <<config_param, resource_vars, provider_vars, tree_vars>>

\* a new compile starts
InmantaResetState ==
    /\ resource_states' = inmanta_reset_state(CurCompile).resource_states
    /\ resource_configs' = inmanta_reset_state(CurCompile).resource_configs
    /\ last' = [op |-> "inmanta_reset_state", arg |-> None, ret |-> None,
                error |-> "none", diag |-> FALSE, trace |-> <<>>]
    /\ UNCHANGED <<config_param, resource_vars, provider_vars, tree_vars>>

\* the state property and its setter, with the error of the state_fact
\* property they read first
state_property(o) ==
    IF backend = "inmanta" /\ o._state = None /\ state_fact_raises(o)
    THEN Raise(o, "KeyError", FALSE)
    ELSE Return(state_get(o), state_get(o)._state)

state_setter(o, value) ==
    IF backend = "inmanta" /\ state_fact_raises(o)
    THEN Raise(o, "KeyError", FALSE)
    ELSE Return(state_set(o, value), None)

\* a deployment reads the state of the state object
StateGetter == Commit("state", None, state_property(Cur))

\* a deployment stores a state in the state object
StateSetter ==
    \E s \in States : Commit("state.setter", Some(s), state_setter(Cur, Some(s)))

\* the state fact of the store is converted to a generation
Convert ==
    \E target \in {"LegacyStateFact", "AlbatrossGenerationStateFact"} :
        LET o1 == state_fact_get(Cur)
            result == convert_to(target, Val(o1._state_fact))
        IN  /\ o1._state_fact # None
            /\ Commit("convert", Some(target),
                      IF result.cls = "ValueError"
                      THEN Raise(o1, "ValueError", FALSE)
                      ELSE Return(o1, Some(result)))

\* a deployment purges the state object
Purge == Commit("purge", None, Return(purge(Cur), None))

NextCompile ==
    \/ NewSession
    \/ StateGetter
    \/ StateSetter
    \/ Convert
    \/ Purge
    \/ SafeResourceState
    \/ InmantaResetState

SpecCompile == InitCompile /\ [][NextCompile]_vars

-----------------------------------------------------------------------------
(* Filling a desired state and parsing it back *)

\* a schema block and a value tree that conforms to it; no provider, no
\* resource client
InitTree ==
    /\ schema_block \in Blocks
    /\ state_tree \in Conforming(schema_block)
    /\ filled = NotRun
    /\ parsed = NotRun
    /\ _proc = None
    /\ _stub = None
    /\ _configured = FALSE
    /\ _stdout_thread = None
    /\ _stderr_thread = None
    /\ _schema = None
    /\ procs = <<>>
    /\ client = FALSE
    /\ IoIdle
    /\ backend = "inmanta"
    /\ resource_config = "cfgA"
    /\ config_hash = dict_hash(resource_config)
    /\ _state = None
    /\ _private = None
    /\ _state_fact = None
    /\ param = None
    /\ private_file = None
    /\ producer = None
    /\ repeated = FALSE
    /\ CompileIdle
    /\ last = [op |-> "init", arg |-> None, ret |-> None, error |-> "none",
               diag |-> FALSE, trace |-> <<>>]

FillPartialState ==
    /\ filled = NotRun
    /\ filled' = fill_partial_state(state_tree, schema_block)
    /\ last' = [op |-> "fill_partial_state", arg |-> None, ret |-> None,
                error |-> IF isRaised(filled') THEN filled'.t ELSE "none",
                diag |-> FALSE, trace |-> <<>>]
    /\ UNCHANGED <<schema_block, state_tree, parsed>>
    /\ UNCHANGED <<resource_vars, provider_vars, compile_vars>>

\* the filled tree is parsed with the same schema block
ParseResourceState ==
    /\ filled.t = "dict"
    /\ parsed = NotRun
    /\ parsed' = parse_resource_state(filled, schema_block)
    /\ last' = [op |-> "parse_resource_state", arg |-> None, ret |-> None,
                error |-> IF isRaised(parsed') THEN parsed'.t ELSE "none",
                diag |-> FALSE, trace |-> <<>>]
    /\ UNCHANGED <<schema_block, state_tree, filled>>
    /\ UNCHANGED <<resource_vars, provider_vars, compile_vars>>

NextTree ==
    \/ FillPartialState
    \/ ParseResourceState

SpecTree == InitTree /\ [][NextTree]_vars

-----------------------------------------------------------------------------
(* Filling a partial state, and parsing a state reported by the provider *)

\* a schema block and a value tree of it, computed attributes included
InitReported ==
    /\ schema_block \in Blocks \cup DeepBlocks
    /\ state_tree \in {Dict(f) : f \in Entries(schema_block,
                                                attribute_names(schema_block)
                                                \cup block_names(schema_block))}
    /\ filled = NotRun
    /\ parsed = NotRun
    /\ _proc = None
    /\ _stub = None
    /\ _configured = FALSE
    /\ _stdout_thread = None
    /\ _stderr_thread = None
    /\ _schema = None
    /\ procs = <<>>
    /\ client = FALSE
    /\ IoIdle
    /\ backend = "inmanta"
    /\ resource_config = "cfgA"
    /\ config_hash = dict_hash(resource_config)
    /\ _state = None
    /\ _private = None
    /\ _state_fact = None
    /\ param = None
    /\ private_file = None
    /\ producer = None
    /\ repeated = FALSE
    /\ CompileIdle
    /\ last = [op |-> "init", arg |-> None, ret |-> None, error |-> "none",
               diag |-> FALSE, trace |-> <<>>]

\* the state read from the provider is parsed with the schema block of the
\* resource
ParseReported ==
    /\ parsed = NotRun
    /\ parsed' = parse_resource_state(state_tree, schema_block)
    /\ last' = [op |-> "parse_resource_state", arg |-> None, ret |-> None,
                error |-> IF isRaised(parsed') THEN parsed'.t ELSE "none",
                diag |-> FALSE, trace |-> <<>>]
    /\ UNCHANGED <<schema_block, state_tree, filled>>
    /\ UNCHANGED <<resource_vars, provider_vars, compile_vars>>

NextReported ==
    \/ FillPartialState
    \/ ParseReported

SpecReported == InitReported /\ [][NextReported]_vars

-----------------------------------------------------------------------------
TypeOK ==
    /\ _state \in OptStates
    /\ _private \in {None} \cup {Some(p) : p \in Privates}
    /\ last.error \in {"none", "Exception", "PluginException",
                       "ResourceLookupException", "PluginResponseException",
                       "PluginInitException", "PluginNotReadyException",
                       "IndexError", "ValueError", "RpcError", "KeyError",
                       "AttributeError", "RuntimeError", "ResourcePurged"}
    /\ _proc \in {None} \cup {Some(i) : i \in 1..Len(procs)}
    /\ _configured \in BOOLEAN
    /\ client \in BOOLEAN
    /\ repeated \in BOOLEAN
    /\ close_pc \in {"idle", "stop", "kill", "wait", "join_stdout", "join_stderr",
                      "done", "raised"}
    /\ io_pc \in [Streams -> {"none", "test", "read", "log", "exit"}]
    /\ pipe \in [Streams -> 0..MaxLines]
    /\ logged \in [Streams -> 0..MaxLines]

-----------------------------------------------------------------------------
(* What the properties read *)

\* what the state object shows now
Observed == Observe(Cur)

\* the state held by the persisted parameter (None when there is no parameter)
PersistedState ==
    IF param = None THEN None
    ELSE IF backend = "base" THEN json_loads(Val(param))
    ELSE build_state_fact(json_loads(Val(param))).state

\* the positions in a trace of the RPC `ev` issued by the method `op`
Calls(trace, ev, op) == {i \in 1..Len(trace) : trace[i].ev = ev /\ trace[i].op = op}

Step(e) == <<e.ev, e.op>>

\* the candidates of the client's type in an ImportResourceState response
OwnCandidates(resp) ==
    {i \in 1..Len(resp.imported_resources) : resp.imported_resources[i].type_name = OWN_TYPE}

\* the trace starts with an ImportResourceState answered without diagnostics
Imported(trace) ==
    /\ Len(trace) >= 1
    /\ Step(trace[1]) = <<"ImportResourceState", "import">>
    /\ ~Val(trace[1].resp).diagnostics

\* the trace starts with the PlanResourceChange of an update answered without
\* diagnostics
Planned(trace) ==
    /\ Len(trace) >= 1
    /\ Step(trace[1]) = <<"PlanResourceChange", "update">>
    /\ ~Val(trace[1].resp).diagnostics

\* the steps of a replacing update, in order
ReplaceSteps ==
    << <<"PlanResourceChange", "update">>, <<"PlanResourceChange", "delete">>,
       <<"ApplyResourceChange", "delete">>, <<"purge", "store">>,
       <<"PlanResourceChange", "create">>, <<"ApplyResourceChange", "create">> >>

-----------------------------------------------------------------------------
(* Properties *)

\* C1: after a Delete that completed without diagnostics, the state and the
\* private read through the same state object are null and the parameter is
\* absent from the store, with either state backend.
C1_DeleteLeavesNothing ==
    (last.op = "delete" /\ last.error = "none") =>
        /\ Observed.state = None
        /\ Observed.private = None
        /\ param = None

\* C2: in Create and in Update, when the response of the ApplyResourceChange
\* of the create or of the in-place update carries diagnostics, the private it
\* returned, and its new state when that is not null, are stored in the state
\* object and persisted after the RPC, and the call ends with the
\* provider-diagnostics error.
C2_PartialFailurePersisted ==
    \A op \in {"create", "update"} :
    \A i \in Calls(last.trace, "ApplyResourceChange", op) :
        LET result == Val(last.trace[i].resp)
            new_state == unpackb(result.new_state)
        IN  (last.op \in {"create", "update"} /\ result.diagnostics) =>
                /\ \E j \in (i+1)..Len(last.trace) : last.trace[j].ev = "private.setter"
                /\ Observed.private = Some(result.private)
                /\ private_file = Some(b64encode(result.private))
                /\ new_state # None =>
                       /\ \E j \in (i+1)..Len(last.trace) : last.trace[j].ev = "state.setter"
                       /\ Observed.state = new_state
                       /\ PersistedState = new_state
                /\ last.error = "PluginResponseException"
                /\ last.diag

C2_Witness ==
    /\ last.op = "update"
    /\ \E i \in Calls(last.trace, "ApplyResourceChange", "update") :
           /\ Val(last.trace[i].resp).diagnostics
           /\ unpackb(Val(last.trace[i].resp).new_state) # None
           /\ PersistedState = unpackb(Val(last.trace[i].resp).new_state)
    /\ last.error = "PluginResponseException"

\* C3: whenever the parameter holds an envelope whose state was produced by a
\* Create or an Update, the config_hash of the envelope is the hash of the
\* desired configuration of that Create or Update.
C3_HashOfProducingConfig ==
    (backend = "inmanta" /\ param # None /\ producer # None) =>
        json_loads(Val(param))["config_hash"] = dict_hash(Val(producer))

\* C4: when the plan of an Update has no diagnostics and its planned state is
\* byte for byte the wire encoding of the current state, Update returns the
\* current state, issues no ApplyResourceChange, and leaves the state, the
\* private and what is persisted unchanged.
C4_IdenticalPlanShortCircuits ==
    [][(/\ last'.op = "update"
        /\ Planned(last'.trace)
        /\ Val(last'.trace[1].resp).planned_state = packb(Observed.state))
       => /\ last'.error = "none"
          /\ last'.ret = Observed.state
          /\ \A i \in 1..Len(last'.trace) : last'.trace[i].ev # "ApplyResourceChange"
          /\ Observed' = Observed]_vars

C4_Witness ==
    /\ last.op = "update"
    /\ Planned(last.trace)
    /\ Val(last.trace[1].resp).planned_state = packb(last.ret)
    /\ last.ret # None
    /\ last.error = "none"

\* C5: when the plan of an Update has no diagnostics, differs from the prior
\* state and requires replacement, Update runs the steps of a Delete (plan,
\* apply, purge) and then those of a Create, in that order, and never applies
\* the update plan in place; each step is taken only when the one before had no
\* diagnostics, and when the Delete fails no step of the Create is taken and
\* the state, the private and what is persisted are unchanged.
C5_ReplaceIsDeleteThenCreate ==
    [][LET t == last'.trace
           n == IF Len(t) < Len(ReplaceSteps) THEN Len(t) ELSE Len(ReplaceSteps)
       IN  (/\ last'.op = "update"
            /\ Planned(t)
            /\ Val(t[1].resp).planned_state # packb(Observed.state)
            /\ Val(t[1].resp).requires_replace)
           => /\ \A i \in 1..n : Step(t[i]) = ReplaceSteps[i]
              /\ \A i \in 1..Len(t) : Step(t[i]) # <<"ApplyResourceChange", "update">>
              /\ Len(t) >= 2
              /\ Len(t) >= 3 <=> ~Val(t[2].resp).diagnostics
              /\ Len(t) >= 4 <=> (Len(t) >= 3 /\ ~Val(t[3].resp).diagnostics)
              /\ Len(t) >= 4 => Len(t) >= 5
              /\ Len(t) >= 6 <=> (Len(t) >= 5 /\ ~Val(t[5].resp).diagnostics)
              /\ Len(t) < 4 =>
                     /\ last'.error = "PluginResponseException"
                     /\ Observed' = Observed]_vars

C5_Witness ==
    /\ last.op = "update"
    /\ Planned(last.trace)
    /\ Val(last.trace[1].resp).requires_replace
    /\ Len(last.trace) >= 6
    /\ Step(last.trace[4]) = <<"purge", "store">>
    /\ Step(last.trace[6]) = <<"ApplyResourceChange", "create">>
    /\ last.error = "none"
    /\ last.ret # None

\* C6: after an Update that replaced, whose Delete step purged and whose Create
\* step failed without a new state, the parameter is absent from the store.
C6_FailedReplaceLeavesNoEnvelope ==
    (/\ last.op = "update"
     /\ \E i \in 1..Len(last.trace) : last.trace[i].ev = "purge"
     /\ last.error # "none"
     /\ \A i \in Calls(last.trace, "ApplyResourceChange", "create") :
            unpackb(Val(last.trace[i].resp).new_state) = None)
    => param = None

C6_Witness ==
    /\ last.op = "update"
    /\ \E i \in 1..Len(last.trace) : last.trace[i].ev = "purge"
    /\ \E i \in Calls(last.trace, "ApplyResourceChange", "create") :
           /\ Val(last.trace[i].resp).diagnostics
           /\ unpackb(Val(last.trace[i].resp).new_state) = None
    /\ last.error = "PluginResponseException"
    /\ param = None

C9_ImportLookupFailures ==
    [][LET t == last'.trace
           imp == Val(t[1].resp)
           own == OwnCandidates(imp)
           one == imp.imported_resources[CHOOSE i \in own : TRUE]
       IN  (last'.op = "import" /\ Imported(t)) =>
               /\ own = {} =>
                      /\ last'.error = "ResourceLookupException"
                      /\ Len(t) = 1
                      /\ Observed' = Observed
               /\ (Cardinality(own) = 1 /\ unpackb(one.state) # None) =>
                      /\ Len(t) >= 2
                      /\ Step(t[2]) = <<"ReadResource", "import">>
                      /\ Val(t[2].req) = [current_state |-> one.state,
                                          private |-> one.private]
                      /\ (/\ ~Val(t[2].resp).diagnostics
                          /\ unpackb(Val(t[2].resp).new_state) = None) =>
                             /\ last'.error = "ResourceLookupException"
                             /\ Len(t) = 2
                             /\ Observed' = Observed]_vars

C9_Witness ==
    /\ last.op = "import"
    /\ Imported(last.trace)
    /\ Len(last.trace) = 2
    /\ unpackb(Val(last.trace[2].resp).new_state) = None
    /\ last.error = "ResourceLookupException"
    /\ param # None

\* C10: after a Read whose ReadResource returned no diagnostics and a null new
\* state, the state and the private read through the state object are null,
\* the parameter is absent from the store, and Read returned null.
C10_NullReadPurges ==
    (/\ last.op = "read"
     /\ \E i \in Calls(last.trace, "ReadResource", "read") :
            /\ ~Val(last.trace[i].resp).diagnostics
            /\ unpackb(Val(last.trace[i].resp).new_state) = None)
    => /\ Observed.state = None
       /\ Observed.private = None
       /\ param = None
       /\ last.ret = None

\* C11: a Read whose ReadResource response carries diagnostics, and a Delete
\* whose PlanResourceChange or ApplyResourceChange response carries
\* diagnostics, end with the provider-diagnostics error and leave the state,
\* the private and what is persisted as they were before the call.
C11_FailedReadAndDeleteChangeNothing ==
    [][LET t == last'.trace
       IN  (\/ /\ last'.op = "read"
               /\ \E i \in Calls(t, "ReadResource", "read") : Val(t[i].resp).diagnostics
            \/ /\ last'.op = "delete"
               /\ \E i \in Calls(t, "PlanResourceChange", "delete")
                           \cup Calls(t, "ApplyResourceChange", "delete") :
                      Val(t[i].resp).diagnostics)
           => /\ last'.error = "PluginResponseException"
              /\ last'.diag
              /\ \A i \in 1..Len(t) : t[i].op # "store"
              /\ Observed' = Observed]_vars

C11_Witness ==
    /\ last.op = "delete"
    /\ \E i \in Calls(last.trace, "ApplyResourceChange", "delete") :
           /\ Val(last.trace[i].resp).diagnostics
           /\ unpackb(Val(last.trace[i].resp).new_state) # None
    /\ last.error = "PluginResponseException"
    /\ Observed.state # None
    /\ param # None

-----------------------------------------------------------------------------
(* Properties of the provider *)

\* the handshake lines the specification accepts: core version 1, protocol
\* version 4 or 5, a unix socket, grpc
Accepted(line) ==
    \E h \in Handshakes : \E n \in 5..MaxFields :
        /\ line = join(SubSeq(h, 1, n))
        /\ h[1] = "1"
        /\ h[2] \in {"4", "5"}
        /\ h[3] = "unix"
        /\ h[5] = "grpc"

\* the last call spawned a subprocess and read its handshake line
Started == last.op = "open" /\ Calls(last.trace, "Popen", "open") # {}

\* the provider does not report ready and its stub and schema raise not-ready
NotReady ==
    /\ ~ready(CurProvider)
    /\ stub(CurProvider).error = "PluginNotReadyException"
    /\ \A s \in SchemaResponses : schema(CurProvider, s).error = "PluginNotReadyException"

Ready == ready(CurProvider)

\* C12: open() on a subprocess that prints an accepted handshake line succeeds,
\* and on every other line, also one with fewer than 4 fields and one that
\* ends after the address, it fails with PluginInitException and no other
\* error.
C12_HandshakeAcceptedOrInitError ==
    Started =>
        IF Accepted(Val(last.arg))
        THEN last.error = "none"
        ELSE last.error = "PluginInitException"

\* C13: an open() that fails on the handshake builds no channel and no stub;
\* while there is no stub the provider is not ready and its stub and schema
\* raise PluginNotReadyException; a stub only appears by an open() that
\* succeeded.
C13_FailedStartBuildsNoStub ==
    [][/\ (Started' /\ last'.error # "none") =>
              /\ _stub' = None
              /\ Calls(last'.trace, "insecure_channel", "open") = {}
       /\ _stub' = None => NotReady'
       /\ (_stub = None /\ last'.op \in {"stub", "schema"}) =>
              last'.error = "PluginNotReadyException"
       /\ (_stub = None /\ _stub' # None) => (Started' /\ last'.error = "none")]_vars

C13_Witness ==
    /\ last.op = "stub"
    /\ last.error = "PluginNotReadyException"
    /\ _proc # None
    /\ _stub = None

\* C14: the provider is not ready before any open(), not ready after an open()
\* that started a subprocess, and not ready after close(); it becomes ready
\* only by a configure() whose Configure RPC returned without diagnostics, and
\* is ready after every such configure(); when it is ready both the process
\* handle and the stub are present.
C14_ReadyIsConfigured ==
    [][/\ procs = <<>> => ~Ready
       /\ Ready' => (_proc' # None /\ _stub' # None)
       /\ Started' => ~Ready'
       /\ last'.op = "close" => ~Ready'
       /\ (~Ready /\ Ready') =>
              /\ last'.op = "configure"
              /\ last'.error = "none"
              /\ \E i \in Calls(last'.trace, "Configure", "configure") :
                     ~Val(last'.trace[i].resp).diagnostics
       /\ (/\ last'.op = "configure"
           /\ \E i \in Calls(last'.trace, "Configure", "configure") :
                  ~Val(last'.trace[i].resp).diagnostics) => Ready']_vars

C14_Witness ==
    /\ last.op = "configure"
    /\ last.error = "none"
    /\ Ready
    /\ _proc # None
    /\ _stub # None

\* C15: a close() whose Stop RPC raised has still killed the subprocess, waited
\* on it, dropped the process handle and joined both logging threads.
C15_FailedStopStillTearsDown ==
    (/\ last.op = "close"
     /\ \E i \in Calls(last.trace, "Stop", "close") : Val(last.trace[i].resp) # "ok")
    => /\ _proc = None
       /\ \A i \in 1..Len(procs) : procs[i] = "killed"
       /\ Calls(last.trace, "kill", "close") # {}
       /\ Calls(last.trace, "wait", "close") # {}
       /\ _stdout_thread \in {None, Some("joined")}
       /\ _stderr_thread \in {None, Some("joined")}

\* C16: a close() on a provider that was never started, and a close() right
\* after a close(), raises nothing, sends no Stop RPC, kills no process and
\* leaves the provider as it was.
C16_StopIsIdempotent ==
    [][(last'.op = "close" /\ (procs = <<>> \/ last.op = "close"))
       => /\ last'.error = "none"
          /\ Calls(last'.trace, "Stop", "close") = {}
          /\ Calls(last'.trace, "kill", "close") = {}
          /\ provider_vars' = provider_vars]_vars

-----------------------------------------------------------------------------
(* Properties of the persisted envelope *)

\* the record held by the parameter (read only when there is one)
Envelope == json_loads(Val(param))

\* the record is a current-generation envelope
CurrentGeneration(raw_state) ==
    /\ STATE_DICT_GENERATION_MARKER \in DOMAIN raw_state
    /\ raw_state[STATE_DICT_GENERATION_MARKER] = "Albatross"

\* the state writes of a trace that found a legacy fact in the store
WroteOverLegacy(t) ==
    {i \in 1..Len(t) : /\ t[i].ev = "state.setter"
                       /\ t[i].req # None
                       /\ Val(t[i].req).cls = "LegacyStateFact"}

\* the call with trace t wrote the state, and did not purge it afterwards
Wrote(t) == LastEvent(t, {"state.setter", "purge"}) = "state.setter"

\* C17: with the orchestrator-backed store, after every state write the
\* parameter holds an envelope with the generation marker "Albatross", also
\* when the record found was a legacy (markerless) one; and no call changes
\* the parameter into a markerless record.
C17_WrittenEnvelopeIsCurrentGeneration ==
    [][backend = "inmanta" =>
          /\ Wrote(last'.trace) => (param' # None /\ CurrentGeneration(Envelope'))
          /\ (param' # param /\ param' # None) => CurrentGeneration(Envelope')]_vars

C17_Witness ==
    /\ backend = "inmanta"
    /\ WroteOverLegacy(last.trace) # {}
    /\ Wrote(last.trace)
    /\ param # None
    /\ CurrentGeneration(Envelope)

\* C18: with the orchestrator-backed store, after every state write (a first
\* write, an overwrite of a current-generation envelope, a write over a legacy
\* record) the config_hash of the persisted envelope is the hash of the
\* desired configuration the store was built with, and is not the sentinel of
\* the legacy upgrade.
C18_WrittenHashIsStoreConfigHash ==
    [][(backend = "inmanta" /\ Wrote(last'.trace)) =>
          /\ param' # None
          /\ Envelope'["config_hash"] = dict_hash(resource_config)
          /\ Envelope'["config_hash"] = config_hash
          /\ Envelope'["config_hash"] # ""]_vars

C18_Witness ==
    /\ backend = "inmanta"
    /\ last.op = "update"
    /\ Wrote(last.trace)
    /\ WroteOverLegacy(last.trace) # {}
    /\ param # None
    /\ Envelope["config_hash"] = dict_hash(resource_config)

-----------------------------------------------------------------------------
(* Properties of the safe state of a compile *)

\* the stored record is a current-generation envelope whose config_hash is
\* the hash of the configuration c
Fresh(c) ==
    /\ param # None
    /\ CurrentGeneration(Envelope)
    /\ Envelope["config_hash"] = dict_hash(c)

\* C20: safe_resource_state called with the current configuration returns the
\* state of the stored envelope when the config_hash of the envelope is the
\* hash of that configuration, and returns Unknown, without raising, in every
\* other case: no record stored, a legacy record, a different hash.
C20_SafeStateOnlyWhenFresh ==
    last.op = "safe_resource_state" =>
        /\ last.error = "none"
        /\ IF Fresh(Val(last.arg))
           THEN ~isUnknown(last.ret) /\ last.ret.value = Envelope["state"]
           ELSE isUnknown(last.ret)

-----------------------------------------------------------------------------
(* Properties of the generations *)

\* the stored record carries a generation marker that is not registered
UnregisteredStored ==
    /\ backend = "inmanta"
    /\ param # None
    /\ STATE_DICT_GENERATION_MARKER \in DOMAIN Envelope
    /\ Envelope[STATE_DICT_GENERATION_MARKER] # "Albatross"

\* C21: on a stored record whose generation marker is not registered,
\* build_state_fact raises KeyError (a lookup error) and returns no fact;
\* reading the state and writing the state raise that error, return nothing
\* and leave the record, the cached state and the cached fact as they were,
\* and safe_resource_state returns no state.
C21_UnregisteredGenerationIsLookupError ==
    [][UnregisteredStored =>
          /\ build_state_fact(Envelope).cls = "KeyError"
          /\ last'.op \in {"state", "state.setter"} =>
                 /\ last'.error = "KeyError"
                 /\ last'.ret = None
                 /\ last'.trace = <<>>
                 /\ <<param', _state', _state_fact'>> = <<param, None, None>>
          /\ last'.op = "safe_resource_state" => isUnknown(last'.ret)]_vars

C21_Witness ==
    /\ UnregisteredStored
    /\ last.op = "state.setter"
    /\ last.error = "KeyError"
    /\ _state_fact = None

\* the cached state fact is of the current generation
CurrentFact ==
    /\ _state_fact # None
    /\ Val(_state_fact).cls = "AlbatrossGenerationStateFact"

\* C22: no step turns a stored envelope of the current generation, or the
\* cached fact of the current generation, into a legacy one; converting a
\* fact of the current generation to the legacy generation raises ValueError
\* and returns nothing, and converting it to the current generation returns
\* it unchanged.
C22_ConversionIsForwardOnly ==
    [][/\ (param # None /\ CurrentGeneration(Envelope) /\ param' # None)
              => CurrentGeneration(Envelope')
       /\ (CurrentFact /\ _state_fact' # None) => CurrentFact'
       /\ (CurrentFact /\ last'.op = "convert") =>
              /\ <<param', _state_fact'>> = <<param, _state_fact>>
              /\ IF last'.arg = Some("LegacyStateFact")
                 THEN last'.error = "ValueError" /\ last'.ret = None
                 ELSE last'.error = "none" /\ last'.ret = _state_fact]_vars

C22_Witness ==
    /\ CurrentFact
    /\ param # None
    /\ CurrentGeneration(Envelope)
    /\ last.op = "convert"
    /\ last.arg = Some("LegacyStateFact")
    /\ last.error = "ValueError"

-----------------------------------------------------------------------------
(* Properties of fill_partial_state and parse_resource_state *)

\* C23: for every schema block, with a nested block of any nesting (single,
\* list, set, map, group), and every value tree that conforms to it and uses
\* no computed attribute, parsing the filled tree gives the tree back, null
\* entries left aside.
C23_ParseOfFillIsIdentity ==
    parsed # NotRun =>
        /\ parsed.t = "dict"
        /\ strip(parsed) = strip(state_tree)

-----------------------------------------------------------------------------
(* Properties of the diagnostics of the provider RPCs *)

\* the RPCs of a trace whose response carries diagnostics
WithDiagnostics(t) ==
    {i \in 1..Len(t) : /\ t[i].ev \in {"GetSchema", "Configure", "ImportResourceState",
                                       "ReadResource", "PlanResourceChange",
                                       "ApplyResourceChange"}
                       /\ Val(t[i].resp).diagnostics}

\* C24: a call of the provider that received an RPC response with
\* diagnostics (GetSchema, Configure) ends with the provider-diagnostics
\* error, and a GetSchema response with diagnostics is not kept as the schema.
C24_DiagnosticsAlwaysRaise ==
    WithDiagnostics(last.trace) # {} =>
        /\ last.error = "PluginResponseException"
        /\ last.diag
        /\ \A i \in WithDiagnostics(last.trace) :
               last.trace[i].ev = "GetSchema" => _schema # last.trace[i].resp

-----------------------------------------------------------------------------
(* Properties of a handler session *)

LifecycleOps == {"import", "read", "create", "update", "delete"}

\* the positions in a trace of the RPCs sent to the provider
ProviderRpcs(t) ==
    {i \in 1..Len(t) : t[i].ev \in {"GetSchema", "ImportResourceState", "ReadResource",
                                    "PlanResourceChange", "ApplyResourceChange"}}

\* C25: a client is built only on a ready provider, and a lifecycle operation
\* sends no RPC to a provider that is not ready (never started, stopped, or
\* started again and not configured): it then ends with the not-ready error
\* whenever it sent nothing and did not return.
C25_NoRpcUnlessReady ==
    /\ (last.op = "client" /\ last.error = "none") => Ready
    /\ (last.op \in LifecycleOps /\ ~Ready) =>
           /\ ProviderRpcs(last.trace) = {}
           /\ last.error \in {"none", "PluginNotReadyException", "Exception",
                              "PluginException"}

-----------------------------------------------------------------------------
(* Properties of the operations on an incomplete state *)

\* the state object misses its state or its private
Incomplete == Observed.state = None \/ Observed.private = None

\* C26: a Read, Update or Delete on a state object that misses state or
\* private sends no RPC; Update and Delete then raise the state-incomplete
\* error and change nothing; Read returns null when state is null, and raises
\* the state-incomplete error when state is present and private is missing.
C26_IncompleteStateSendsNothing ==
    [][(last'.op \in {"read", "update", "delete"} /\ Incomplete)
       => /\ ProviderRpcs(last'.trace) = {}
          /\ last'.op \in {"update", "delete"}
                => (last'.error = "Exception" /\ Observed' = Observed)
          /\ (last'.op = "read" /\ Observed.state = None)
                => (last'.error = "none" /\ last'.ret = None)
          /\ (last'.op = "read" /\ Observed.state # None)
                => last'.error = "Exception"]_vars

\* an Update or a Delete was refused for an incomplete state
C26_Witness ==
    /\ last.op \in {"update", "delete"}
    /\ last.error = "Exception"
    /\ last.trace = <<>>
    /\ Incomplete

-----------------------------------------------------------------------------
(* Properties of the Update applied in place *)

\* C27: an Update that sent its own ApplyResourceChange returns normally only
\* if the response has no diagnostics and a new state that is not null, and
\* then what it returns, the state of the state object and the persisted state
\* are that new state; when the response has no diagnostics and a null new
\* state, Update raises the response error, without diagnostics.
C27_UpdateReturnsAppliedState ==
    last.op = "update" =>
        \A i \in Calls(last.trace, "ApplyResourceChange", "update") :
            LET resp == Val(last.trace[i].resp)
                new_state == parse_response(unpackb(resp.new_state))
            IN  /\ last.error = "none" =>
                       /\ ~resp.diagnostics
                       /\ new_state # None
                       /\ last.ret = new_state
                       /\ Observed.state = new_state
                       /\ PersistedState = new_state
                /\ (~resp.diagnostics /\ new_state = None) =>
                       /\ last.error = "PluginResponseException"
                       /\ ~last.diag

\* an Update applied in place and returned
C27_Witness ==
    /\ last.op = "update"
    /\ Calls(last.trace, "ApplyResourceChange", "update") # {}
    /\ last.error = "none"
    /\ last.ret # None

-----------------------------------------------------------------------------
(* Properties of a repeated operation *)

\* The responses in the trace t are those of a provider whose remote object is
\* what the state object shows: a ReadResource returns that state and that
\* private, the plan of an Update plans that state.
UnchangedRemote(t) ==
    \A i \in 1..Len(t) :
        LET resp == Val(t[i].resp)
        IN  /\ (t[i].ev = "ReadResource" /\ ~resp.diagnostics) =>
                   /\ resp.new_state = packb(Observed.state)
                   /\ Some(resp.private) = Observed.private
            /\ (Step(t[i]) = <<"PlanResourceChange", "update">> /\ ~resp.diagnostics) =>
                   resp.planned_state = packb(Observed.state)

-----------------------------------------------------------------------------
(* Properties of close() next to the threads *)

\* C29: no _io_logger thread ends while lines are unread in its stream, and
\* when close() has returned every line the subprocess wrote to its stdout
\* and to its stderr has been given to the logger.
C29_AllLinesForwarded ==
    /\ \A s \in Streams : io_pc[s] = "exit" => pipe[s] = 0
    /\ close_pc = "done" => \A s \in Streams : logged[s] = Written(s)

\* C30: a close() that was called returns in the end, normally or with an
\* error.
C30_StopReturns == (close_pc # "idle") ~> (close_pc \in {"done", "raised"})

-----------------------------------------------------------------------------
(* Properties of the subprocess of the provider *)

\* the subprocesses that were spawned and not killed
Live(ps) == {i \in 1..Len(ps) : ps[i] = "running"}

\* C31: an open() that spawned a subprocess and failed on its handshake line
\* leaves no process handle and no running subprocess, and an open() made
\* right after it spawns a new subprocess.
C31_FailedStartDropsSubprocess ==
    [][/\ (Started' /\ last'.error # "none") =>
              /\ _proc' = None
              /\ Live(procs') = {}
       /\ (Started /\ last.error # "none" /\ last'.op = "open") => Started']_vars

\* C32: at most one subprocess of the provider runs, the one of the process
\* handle; an open() on a provider that holds a process handle spawns
\* nothing; every subprocess spawned before was killed when one is spawned.
C32_AtMostOneLiveSubprocess ==
    [][/\ Cardinality(Live(procs')) <= 1
       /\ \A i \in Live(procs') : _proc' = Some(i)
       /\ (last'.op = "open" /\ _proc # None) =>
              /\ procs' = procs
              /\ Calls(last'.trace, "Popen", "open") = {}
       /\ Len(procs') > Len(procs) => Live(procs) = {}]_vars

\* a second subprocess was spawned, after the first one was killed
C32_Witness ==
    /\ Started
    /\ Len(procs) = 2
    /\ procs[1] = "killed"
    /\ procs[2] = "running"

-----------------------------------------------------------------------------
(* Properties of the requests *)

\* C33: in Create, Update and Delete an ApplyResourceChange directly follows a
\* PlanResourceChange of the same operation that returned without diagnostics,
\* and carries the planned state and the planned private of that plan; a plan
\* that returns diagnostics ends the call with the provider-diagnostics error:
\* nothing is sent or stored after it, and when it is the first plan of the
\* call, the state, the private and what is persisted are as before the call.
C33_ApplyFollowsItsPlan ==
    [][LET t == last'.trace
       IN  /\ \A i \in 1..Len(t) :
                  t[i].ev = "ApplyResourceChange" =>
                      /\ i > 1
                      /\ t[i - 1].ev = "PlanResourceChange"
                      /\ t[i - 1].op = t[i].op
                      /\ ~Val(t[i - 1].resp).diagnostics
                      /\ Val(t[i].req).planned_state = Val(t[i - 1].resp).planned_state
                      /\ Val(t[i].req).planned_private = Val(t[i - 1].resp).planned_private
           /\ \A i \in 1..Len(t) :
                  (t[i].ev = "PlanResourceChange" /\ Val(t[i].resp).diagnostics) =>
                      /\ i = Len(t)
                      /\ last'.error = "PluginResponseException"
                      /\ last'.diag
                      /\ i = 1 => Observed' = Observed]_vars

\* a Create sent the plan it received to ApplyResourceChange
C33_Witness ==
    /\ last.op = "create"
    /\ \E i \in Calls(last.trace, "ApplyResourceChange", "create") :
           Val(last.trace[i].req).planned_private = "b'p'"

\* C34: in a call made while the state of the state object is null, no
\* request carries the stored private: a plan has no prior private, an apply
\* carries the planned private of the plan before it, and the only
\* ReadResource is that of an Import, with the private of the imported
\* candidate.
C34_NoPrivateWithoutState ==
    [][Observed.state = None =>
        LET t == last'.trace
        IN  \A i \in 1..Len(t) :
                /\ t[i].ev = "PlanResourceChange" => Val(t[i].req).prior_private = None
                /\ t[i].ev = "ApplyResourceChange" =>
                       Val(t[i].req).planned_private = Val(t[i - 1].resp).planned_private
                /\ t[i].ev = "ReadResource" =>
                       /\ t[i].op = "import"
                       /\ \E k \in OwnCandidates(Val(t[i - 1].resp)) :
                              Val(t[i].req).private =
                                  Val(t[i - 1].resp).imported_resources[k].private]_vars

\* a private is stored with no state, and a Create planned without it
C34_Witness ==
    /\ last.op = "create"
    /\ last.error # "none"
    /\ Observed.state = None
    /\ Observed.private # None
    /\ \E i \in Calls(last.trace, "PlanResourceChange", "create") :
           Val(last.trace[i].req).prior_private = None

-----------------------------------------------------------------------------
(* Properties of the precondition of Import *)

\* the state object holds a state whose id is not the one asked for
Conflict(id) == Observed.state # None /\ Val(Observed.state).id # id

\* C35: an Import of an id made while the state object holds a state with
\* another id raises PluginException, sends no RPC and changes nothing; made
\* while the state is null or has the same id, it sends ImportResourceState.
C35_ImportChecksId ==
    [][last'.op = "import" =>
        IF Conflict(Val(last'.arg))
        THEN /\ last'.error = "PluginException"
             /\ ProviderRpcs(last'.trace) = {}
             /\ Observed' = Observed
        ELSE /\ Len(last'.trace) >= 1
             /\ Step(last'.trace[1]) = <<"ImportResourceState", "import">>]_vars

\* an Import was refused for a state with another id
C35_Witness ==
    /\ last.op = "import"
    /\ last.error = "PluginException"
    /\ ProviderRpcs(last.trace) = {}
    /\ Conflict(Val(last.arg))

-----------------------------------------------------------------------------
(* Properties of the read phase of the handler *)

\* C36: in the read phase of the handler, an import is sent only when a
\* terraform id is configured and the Read before it returned null; when the
\* import ends in the resource-lookup error the handler raises ResourcePurged,
\* and when it ends in another error the handler raises that error.
C36_ImportOnlyAfterNullRead ==
    last.op = "handler_read" =>
        LET t == last.trace
        IN  /\ Calls(t, "ImportResourceState", "import") # {} =>
                   /\ last.arg # None
                   /\ \A i \in Calls(t, "ReadResource", "read") :
                          /\ ~Val(t[i].resp).diagnostics
                          /\ unpackb(Val(t[i].resp).new_state) = None
            /\ \A i \in Calls(t, "ImportResourceState", "import") :
                   LET resp == Val(t[i].resp)
                   IN  /\ resp.diagnostics =>
                              (last.error = "PluginResponseException" /\ last.diag)
                       /\ (~resp.diagnostics /\ OwnCandidates(resp) = {}) =>
                              last.error = "ResourcePurged"
                       /\ (~resp.diagnostics /\ Cardinality(OwnCandidates(resp)) > 1) =>
                              last.error = "PluginException"
            /\ \A i \in Calls(t, "ReadResource", "import") :
                   LET resp == Val(t[i].resp)
                   IN  /\ resp.diagnostics =>
                              (last.error = "PluginResponseException" /\ last.diag)
                       /\ (~resp.diagnostics /\ unpackb(resp.new_state) = None) =>
                              last.error = "ResourcePurged"
                       /\ (~resp.diagnostics /\ unpackb(resp.new_state) # None) =>
                              (last.error = "none" /\ last.ret # None)

\* the read phase purged the state on a null Read, imported, and reported the
\* resource as purged on the lookup error of the import
C36_Witness ==
    /\ last.op = "handler_read"
    /\ last.error = "ResourcePurged"
    /\ Calls(last.trace, "ReadResource", "read") # {}
    /\ Calls(last.trace, "ImportResourceState", "import") # {}

-----------------------------------------------------------------------------
(* Properties of the legacy record *)

\* the persisted record has no generation marker
LegacyRecord ==
    /\ param # None
    /\ STATE_DICT_GENERATION_MARKER \notin DOMAIN Envelope

\* the state fact of the store was converted to the current generation
Upgraded ==
    /\ last.op = "convert"
    /\ last.arg = Some("AlbatrossGenerationStateFact")

-----------------------------------------------------------------------------
(* Properties of fill_partial_state on a list of nested blocks *)

\* the schema block has a nested block type of list nesting, the partial
\* state has a list under its name, and the state was filled
ListFilled ==
    /\ filled # NotRun
    /\ schema_block.block_types # <<>>
    /\ schema_block.block_types[1].nesting = LIST
    /\ get(state_tree.d, schema_block.block_types[1].type_name).t = "list"

\* C38: for a schema block with a nested block type of list nesting, filling
\* a list of N partial child dicts gives a list of N dicts in the same order;
\* each has every attribute and every nested block name of the child block,
\* null where the input dict had no entry, and every entry of the input dict
\* (an entry under a nested block name is filled in turn: it differs from the
\* input by null entries only).
C38_FillKeepsListItems ==
    ListFilled =>
        LET nested_block_type == schema_block.block_types[1]
            child == nested_block_type.block
            declared == attribute_names(child) \cup block_names(child)
            items == state_tree.d[nested_block_type.type_name].l
        IN  /\ filled.t = "dict"
            /\ get(filled.d, nested_block_type.type_name).t = "list"
            /\ Len(filled.d[nested_block_type.type_name].l) = Len(items)
            /\ \A i \in 1..Len(items) :
                   LET out == filled.d[nested_block_type.type_name].l[i]
                   IN  /\ out.t = "dict"
                       /\ declared \subseteq DOMAIN out.d
                       /\ \A key \in declared \ DOMAIN items[i].d :
                              out.d[key].t = "null"
                       /\ \A key \in DOMAIN items[i].d :
                              /\ key \in DOMAIN out.d
                              /\ IF key \in block_names(child)
                                 THEN strip(out.d[key]) = strip(items[i].d[key])
                                 ELSE out.d[key] = items[i].d[key]

\* two different partial dicts, the first without the attribute of the child
\* block and the second with a nested block, were filled
C38_Witness ==
    /\ ListFilled
    /\ schema_block \in DeepBlocks
    /\ LET items == state_tree.d["b"].l
           out == filled.d["b"].l
       IN  /\ Len(items) = 2
           /\ "a" \notin DOMAIN items[1].d
           /\ "a" \in DOMAIN items[2].d
           /\ get(items[2].d, "n").t = "dict"
           /\ Len(out) = 2
           /\ out[1] # out[2]
           /\ out[1].d["a"].t = "null"

-----------------------------------------------------------------------------
(* Properties of parse_resource_state on a state reported by the provider *)

computed_names(block) ==
    {block.attributes[i].name : i \in
        {j \in 1..Len(block.attributes) : block.attributes[j].computed}}

\* out is the tree current without its computed attributes and its null
\* entries, at every depth reached through the nested blocks of block
RECURSIVE PrunedAs(_, _, _)
PrunedAs(out, current, block) ==
    /\ out.t = "dict"
    /\ \A key \in DOMAIN out.d :
           /\ out.d[key].t # "null"
           /\ key \notin computed_names(block)
    /\ \A key \in attribute_names(block) \ computed_names(block) :
           get(current.d, key).t # "null" =>
               (key \in DOMAIN out.d /\ out.d[key] = current.d[key])
    /\ \A key \in block_names(block) :
           get(current.d, key).t # "null" =>
               /\ key \in DOMAIN out.d
               /\ LET nested_block == block_type(block, key)
                      o == out.d[key]
                      c == current.d[key]
                  IN  IF nested_block.nesting \in {SINGLE, GROUP}
                      THEN PrunedAs(o, c, nested_block.block)
                      ELSE IF nested_block.nesting \in {LIST, SET}
                      THEN /\ o.t = "list"
                           /\ Len(o.l) = Len(c.l)
                           /\ \A i \in 1..Len(c.l) :
                                  PrunedAs(o.l[i], c.l[i], nested_block.block)
                      ELSE /\ o.t = "dict"
                           /\ DOMAIN o.d = DOMAIN c.d
                           /\ \A k \in DOMAIN c.d :
                                  PrunedAs(o.d[k], c.d[k], nested_block.block)

\* C39: for every schema block and every state tree reported by the provider,
\* the parsed state has, at every depth reached through nested blocks of any
\* nesting (single, list, set, map, group), no computed attribute and no
\* null entry, and keeps every non-computed attribute and every nested block
\* whose value in the input is not null.
C39_ParsedStateIsPruned ==
    parsed # NotRun => PrunedAs(parsed, state_tree, schema_block)

====
